---- MODULE Spec2Model ----
(***************************************************************************)
(* Company Affiliation Consistency Engine of licenses-message-dispatcher.  *)
(*                                                                         *)
(* The model covers the Company collection, one affiliate collection per   *)
(* kind (customers, indicator, partner), the Reference Resolver, the       *)
(* Affiliation Mutator (link / unlink) and the Cascade Propagator as they  *)
(* are written in app/repositories and app/routers/companies.py.  Every    *)
(* repository call is one atomic step in the sequential specifications;    *)
(* in RaceSpec and CrashSpec a request is a task whose steps are its       *)
(* database calls.                                                         *)
(*                                                                         *)
(* Spec        link, unlink, company update and the active-status cascade  *)
(*             on one document that starts with an empty array.            *)
(* CascadeSpec the cascades and company deletion on stored documents of    *)
(*             every shape the collections hold.                           *)
(* WriteSpec   create and update of affiliates with a caller-supplied      *)
(*             company list.                                               *)
(* StorageSpec link when a database call fails.                            *)
(* RaceSpec    two requests in flight on one stored document.              *)
(* CrashSpec   one company update whose process may stop between calls.    *)
(* BatchSpec   create and create_many of customers with a company name.    *)
(* NormalizeSpec  the normalizer on every shape of the company field.      *)
(* SequentialSpec every sequential operation, deletion included, from      *)
(*             empty arrays.                                               *)
(***************************************************************************)
EXTENDS Integers, Sequences, FiniteSets, TLC

(***************************************************************************)
(* Bounds of the model.                                                    *)
(***************************************************************************)
NumCompanies == 2
MaxCompanyUpdates == 1

Companies == 1..NumCompanies

(* Ids of the stored affiliate documents: one document, whose collection   *)
(* (customers, indicator or partner) is fixed in the initial state.        *)
Affiliates == {1}

(* An affiliate id that is well formed but matches no stored document.     *)
NoSuchAffiliate == 0
(* find_one found nothing / resolve_company_reference returned None.       *)
NoCompany == 0

Kinds == {"customer", "indicador", "parceiro"}

(* Python None for an Optional[str] field.                                 *)
None == "None"

LicenseTypes == {"Start", "Hub"}
Statuses == {"ativo", "suspenso", "em_negociacao"}

(* Names companies are created with, by company id, and the further names  *)
(* a rename may give them.  "Omega" never names a company.                 *)
InitialName(c) == IF c = 1 THEN "Acme" ELSE IF c = 2 THEN "Beta" ELSE "Delta"
InitialLicense(c) == IF c = 1 THEN "Start" ELSE IF c = 2 THEN "Hub" ELSE None
CompanyNames == {InitialName(c) : c \in Companies} \cup {"Gamma"}

(* Names a caller may pass to link: stored names, a padded name, a name of *)
(* no company, and the empty and the blank string.                         *)
LinkNames == CompanyNames \cup {" Acme ", "Omega", "", " "}

VARIABLES
    companies,   \* companies collection: id -> Company document
    kind,        \* affiliate id -> the collection that holds the document
    docs,        \* affiliate id -> affiliate document (company array, license_type)
    last,        \* the operation that ran last, its outcome and the document it read
    nUpdates,    \* number of company updates performed so far
    tasks        \* request handlers in flight or ended: task id -> its position and locals

vars == <<companies, kind, docs, last, nUpdates, tasks>>

(***************************************************************************)
(* str.strip() on the names above.                                         *)
(***************************************************************************)
Strip(s) ==
    IF s = " Acme " THEN "Acme"
    ELSE IF s = " " THEN ""
    ELSE s

(***************************************************************************)
(* CompanyRepository.find_by_name: find_one({"name": name}); the first     *)
(* document in insertion order, NoCompany when there is none.              *)
(***************************************************************************)
FindByName(name) ==
    IF \E c \in DOMAIN companies : companies[c].name = name
    THEN CHOOSE c \in DOMAIN companies :
            /\ companies[c].name = name
            /\ \A d \in DOMAIN companies : companies[d].name = name => c <= d
    ELSE NoCompany

(* company.status == "ativo" and company.active is True                    *)
IsOperationallyActive(c) ==
    companies[c].status = "ativo" /\ companies[c].active

NoRef == [id |-> NoCompany]

(***************************************************************************)
(* resolve_company_reference(company_name, validate_status), the same code *)
(* in CustomerRepository and TeamRepository.  NoRef stands for None.       *)
(***************************************************************************)
ResolveCompanyReference(company_name, validate_status) ==
    IF company_name = "" \/ Strip(company_name) = ""
    THEN NoRef
    ELSE LET c == FindByName(Strip(company_name)) IN
         IF c = NoCompany
         THEN NoRef
         ELSE IF validate_status /\ ~companies[c].active
              THEN NoRef
              ELSE [id |-> c,
                    name |-> companies[c].name,
                    isCompanyActive |-> IsOperationallyActive(c),
                    license_type |-> companies[c].license_type]

(* existing_company.get("isCompanyActive", True) on a stored reference: a   *)
(* reference written before the flag existed counts as active.             *)
IsActiveRef(ref) ==
    IF "isCompanyActive" \in DOMAIN ref THEN ref.isCompanyActive ELSE TRUE

(* company["isCompanyActive"] = value on a dict: the key is set, added     *)
(* when the dict did not have it.                                          *)
WithActiveFlag(ref, value) ==
    [f \in DOMAIN ref \cup {"isCompanyActive"} |->
        IF f = "isCompanyActive" THEN value ELSE ref[f]]

(* Index of the first reference of the array with the given company id,    *)
(* 0 when there is none (the for / break loop of link_company).            *)
FirstIndexOfId(existing_companies, company_id) ==
    IF \E i \in 1..Len(existing_companies) : existing_companies[i].id = company_id
    THEN CHOOSE i \in 1..Len(existing_companies) :
            /\ existing_companies[i].id = company_id
            /\ \A j \in 1..(i - 1) : existing_companies[j].id # company_id
    ELSE 0

(* link_company without the already-linked check.                          *)
AlreadyLinkedActive_NeverRaises(existing_companies, company_ref) == FALSE

(* link_company raises "already linked as active": the first reference     *)
(* with the resolved id is flagged active.                                 *)
AlreadyLinkedActive(existing_companies, company_ref) ==
    LET idx == FirstIndexOfId(existing_companies, company_ref.id) IN
    idx # 0 /\ IsActiveRef(existing_companies[idx])

(* link_company that appends without marking the previous references      *)
(* inactive.                                                               *)
LinkedCompanies_KeepsPreviousActive(existing_companies, company_ref) ==
    LET idx == FirstIndexOfId(existing_companies, company_ref.id) IN
    IF idx # 0
    THEN [i \in 1..Len(existing_companies) |->
            IF i # idx
            THEN [existing_companies[i] EXCEPT !.isCompanyActive = FALSE]
            ELSE [existing_companies[i] EXCEPT !.isCompanyActive = TRUE,
                                               !.name = company_ref.name]]
    ELSE Append(existing_companies, [company_ref EXCEPT !.isCompanyActive = TRUE])

(* link_company that finds the inactive entry but forgets to flag it       *)
(* active again.                                                           *)
LinkedCompanies_NoReactivation(existing_companies, company_ref) ==
    LET idx == FirstIndexOfId(existing_companies, company_ref.id) IN
    IF idx # 0
    THEN [i \in 1..Len(existing_companies) |->
            IF i # idx
            THEN [existing_companies[i] EXCEPT !.isCompanyActive = FALSE]
            ELSE [existing_companies[i] EXCEPT !.name = company_ref.name]]
    ELSE Append([i \in 1..Len(existing_companies) |->
                    [existing_companies[i] EXCEPT !.isCompanyActive = FALSE]],
                [company_ref EXCEPT !.isCompanyActive = TRUE])

(* link_company that replaces the array by the new reference.              *)
LinkedCompanies_DropsHistory(existing_companies, company_ref) ==
    LET idx == FirstIndexOfId(existing_companies, company_ref.id) IN
    IF idx # 0
    THEN [i \in 1..Len(existing_companies) |->
            IF i # idx
            THEN [existing_companies[i] EXCEPT !.isCompanyActive = FALSE]
            ELSE [existing_companies[i] EXCEPT !.isCompanyActive = TRUE,
                                               !.name = company_ref.name]]
    ELSE <<[company_ref EXCEPT !.isCompanyActive = TRUE]>>

(* link_company that reactivates an entry without refreshing its name.     *)
LinkedCompanies_KeepsStaleName(existing_companies, company_ref) ==
    LET idx == FirstIndexOfId(existing_companies, company_ref.id) IN
    IF idx # 0
    THEN [i \in 1..Len(existing_companies) |->
            IF i # idx
            THEN [existing_companies[i] EXCEPT !.isCompanyActive = FALSE]
            ELSE [existing_companies[i] EXCEPT !.isCompanyActive = TRUE]]
    ELSE Append([i \in 1..Len(existing_companies) |->
                    [existing_companies[i] EXCEPT !.isCompanyActive = FALSE]],
                [company_ref EXCEPT !.isCompanyActive = TRUE])

(* link_company that appends the resolved reference even when the array    *)
(* already holds an inactive entry with its id.                            *)
LinkedCompanies_AlwaysAppends(existing_companies, company_ref) ==
    Append([i \in 1..Len(existing_companies) |->
                [existing_companies[i] EXCEPT !.isCompanyActive = FALSE]],
           [company_ref EXCEPT !.isCompanyActive = TRUE])

(* The array link_company writes: an inactive entry with the resolved id   *)
(* is reactivated in place and its name refreshed, otherwise every entry   *)
(* is marked inactive and the resolved reference is appended as active.    *)
LinkedCompanies(existing_companies, company_ref) ==
    LET idx == FirstIndexOfId(existing_companies, company_ref.id) IN
    IF idx # 0
    THEN [i \in 1..Len(existing_companies) |->
            IF i # idx
            THEN [existing_companies[i] EXCEPT !.isCompanyActive = FALSE]
            ELSE [existing_companies[i] EXCEPT !.isCompanyActive = TRUE,
                                               !.name = company_ref.name]]
    ELSE Append([i \in 1..Len(existing_companies) |->
                    [existing_companies[i] EXCEPT !.isCompanyActive = FALSE]],
                [company_ref EXCEPT !.isCompanyActive = TRUE])

(* Index of the first reference flagged active, 0 when none is.            *)
FirstActiveIndex(existing_companies) ==
    IF \E i \in 1..Len(existing_companies) : IsActiveRef(existing_companies[i])
    THEN CHOOSE i \in 1..Len(existing_companies) :
            /\ IsActiveRef(existing_companies[i])
            /\ \A j \in 1..(i - 1) : ~IsActiveRef(existing_companies[j])
    ELSE 0

(* seq without its element at index k.                                     *)
RemoveAt(seq, k) ==
    [i \in 1..(Len(seq) - 1) |-> IF i < k THEN seq[i] ELSE seq[i + 1]]

(* unlink_company that, with no active reference, drops the newest entry   *)
(* instead of existing_companies[1:].                                      *)
UnlinkedCompanies_DropsLast(existing_companies) ==
    LET idx == FirstActiveIndex(existing_companies) IN
    IF idx # 0
    THEN RemoveAt(existing_companies, idx)
    ELSE RemoveAt(existing_companies, Len(existing_companies))

(* The array unlink_company writes for a non-empty array: the first active *)
(* reference is dropped, or existing_companies[1:] when none is active.    *)
UnlinkedCompanies(existing_companies) ==
    LET idx == FirstActiveIndex(existing_companies) IN
    IF idx # 0
    THEN RemoveAt(existing_companies, idx)
    ELSE Tail(existing_companies)

(***************************************************************************)
(* Stored shape of the company field.  A document written by this code     *)
(* holds an array of references (shape "array"); a document written before *)
(* the array existed holds one reference object, {id, name}, with no array *)
(* around it and no isCompanyActive key (shape "object"), or a bare        *)
(* company name (shape "string"), or null (shape "null", company None).    *)
(* Inside a list, [str |-> s] stands for a bare string s and               *)
(* [other |-> v] for a value that is neither a string nor a mapping.       *)
(***************************************************************************)
Shapes == {"array", "object", "string", "null"}

IsBareString(item) == DOMAIN item = {"str"}

IsMapping(item) == "str" \notin DOMAIN item /\ "other" \notin DOMAIN item

(* The loop of normalize_company_array_field with insert(0, ...) in place  *)
(* of append: the result comes out newest first.                           *)
RECURSIVE NormalizedItems_NewestFirst(_)
NormalizedItems_NewestFirst(items) ==
    IF items = <<>> THEN <<>>
    ELSE LET item == Head(items) IN
         NormalizedItems_NewestFirst(Tail(items))
         \o (IF IsMapping(item) THEN <<item>>
             ELSE IF IsBareString(item) THEN <<[name |-> item.str]>>
             ELSE <<>>)

(* The loop of normalize_company_array_field over a list: a mapping is     *)
(* copied, a string s becomes {"name": s}, anything else is left out.      *)
RECURSIVE NormalizedItems(_)
NormalizedItems(items) ==
    IF items = <<>> THEN <<>>
    ELSE LET item == Head(items) IN
         (IF IsMapping(item) THEN <<item>>
          ELSE IF IsBareString(item) THEN <<[name |-> item.str]>>
          ELSE <<>>)
         \o NormalizedItems(Tail(items))

(* normalize_company_array_field: the list the models are built from when  *)
(* a document is read; None gives the empty list, a single object a        *)
(* one-element list, a string s the list [{"name": s}].                    *)
NormalizeCompanyArrayField(doc) ==
    IF doc.shape = "null" THEN <<>>
    ELSE IF doc.shape = "array" THEN NormalizedItems(doc.company)
    ELSE IF doc.shape = "object" THEN <<doc.company>>
    ELSE <<[name |-> doc.company]>>

(***************************************************************************)
(* Cascade Propagator, per document.                                       *)
(***************************************************************************)

(* The find filter {"company": {"$elemMatch": {"id": id}}}: it matches an  *)
(* array with such an element and never a single embedded object.          *)
ElemMatchCompany(doc, company_id) ==
    /\ doc.shape = "array"
    /\ \E i \in 1..Len(doc.company) : doc.company[i].id = company_id

(* The find filters of the license and active-status cascades, the         *)
(* $elemMatch one and {"company.id": id}, which also matches an embedded   *)
(* object.                                                                 *)
EmbedsCompany(doc, company_id) ==
    IF doc.shape = "object"
    THEN doc.company.id = company_id
    ELSE \E i \in 1..Len(doc.company) : doc.company[i].id = company_id

(* update_company_name that skips the historical (inactive) references.    *)
RenamedDoc_ActiveOnly(doc, company_id, new_name) ==
    [doc EXCEPT !.company =
        [i \in 1..Len(doc.company) |->
            IF doc.company[i].id = company_id /\ IsActiveRef(doc.company[i])
            THEN [doc.company[i] EXCEPT !.name = new_name]
            ELSE doc.company[i]]]

(* update_company_name on a document its filter found: the name of every   *)
(* reference with the id, active or not, is rewritten.                     *)
RenamedDoc(doc, company_id, new_name) ==
    [doc EXCEPT !.company =
        [i \in 1..Len(doc.company) |->
            IF doc.company[i].id = company_id
            THEN [doc.company[i] EXCEPT !.name = new_name]
            ELSE doc.company[i]]]

(* update_license_type_by_company that does not look at the flag.          *)
LicenseCascadedDoc_AnyReference(doc, company_id, new_license_type) ==
    [doc EXCEPT !.license_type = new_license_type]

(* update_license_type_by_company on a document its filters found:         *)
(* license_type is set when the document holds the company as an active    *)
(* reference (a reference without the flag counts as active).              *)
LicenseCascadedDoc(doc, company_id, new_license_type) ==
    LET should_update ==
            IF doc.shape = "object"
            THEN doc.company.id = company_id /\ IsActiveRef(doc.company)
            ELSE \E i \in 1..Len(doc.company) :
                    doc.company[i].id = company_id /\ IsActiveRef(doc.company[i])
    IN IF should_update
       THEN [doc EXCEPT !.license_type = new_license_type]
       ELSE doc

(* update_company_active_status that rewrites every matching reference,    *)
(* historical ones of a longer array included.                             *)
ActiveStatusCascadedDoc_AlwaysUpdates(doc, company_id, is_company_active) ==
    IF doc.shape = "object"
    THEN IF doc.company.id = company_id
         THEN [doc EXCEPT !.company = WithActiveFlag(doc.company, is_company_active)]
         ELSE doc
    ELSE [doc EXCEPT !.company =
            [i \in 1..Len(doc.company) |->
                IF doc.company[i].id = company_id
                THEN WithActiveFlag(doc.company[i], is_company_active)
                ELSE doc.company[i]]]

(* update_company_active_status on a document its filters found: a         *)
(* matching reference is set to the new value when it is the only          *)
(* reference of the array or is flagged active; a single embedded object   *)
(* is always set.                                                          *)
ActiveStatusCascadedDoc(doc, company_id, is_company_active) ==
    IF doc.shape = "object"
    THEN IF doc.company.id = company_id
         THEN [doc EXCEPT !.company = WithActiveFlag(doc.company, is_company_active)]
         ELSE doc
    ELSE LET has_multiple_companies == Len(doc.company) > 1 IN
         [doc EXCEPT !.company =
            [i \in 1..Len(doc.company) |->
                IF /\ doc.company[i].id = company_id
                   /\ (~has_multiple_companies \/ IsActiveRef(doc.company[i]))
                THEN WithActiveFlag(doc.company[i], is_company_active)
                ELSE doc.company[i]]]

(* clear_company_reference on a document its filter found: $pull removes   *)
(* every element of the array with the id.                                 *)
ClearedDoc(doc, company_id) ==
    LET NotTheCompany(ref) == ref.id # company_id IN
    [doc EXCEPT !.company = SelectSeq(doc.company, NotTheCompany)]

(***************************************************************************)
(* Record of the operation that ran last: its name, the affiliate id and   *)
(* the company name it was called with, how it ended, the company id it    *)
(* resolved, whether it issued update_one / find_one_and_update on the     *)
(* affiliate document, and the document as it was read.  For an operation  *)
(* on a company (update, delete, a cascade) arg is its input and before is *)
(* the content of the collections when it started.                         *)
(***************************************************************************)
EmptyDoc == [company |-> <<>>, license_type |-> None, shape |-> "array"]

Collections == [docs |-> docs, companies |-> companies]

Ran(op, a, company_name, outcome, company_id, wrote, before) ==
    [op |-> op, aff |-> a, arg |-> company_name, outcome |-> outcome,
     company |-> company_id, wrote |-> wrote, before |-> before]

(***************************************************************************)
(* Initial state: every company operationally active under its initial     *)
(* name, the affiliate document stored with an empty company array.  A     *)
(* customer document always has a license_type (Start or Hub).             *)
(***************************************************************************)
Init ==
    /\ companies = [c \in Companies |->
            [name |-> InitialName(c), active |-> TRUE, status |-> "ativo",
             license_type |-> InitialLicense(c)]]
    /\ kind \in [Affiliates -> Kinds]
    /\ \E lt \in LicenseTypes :
         docs = [a \in Affiliates |->
            [company |-> <<>>,
             license_type |-> IF kind[a] = "customer" THEN lt ELSE None,
             shape |-> "array"]]
    /\ last = Ran("init", NoSuchAffiliate, "", "ok", NoCompany, FALSE, EmptyDoc)
    /\ nUpdates = 0
    /\ tasks = <<>>

(***************************************************************************)
(* link_company of the three repositories.  a is the affiliate id of the   *)
(* request, company_name the name to link.  The code of the Indicador and  *)
(* Parceiro repositories is the same and writes the array only; the        *)
(* Customer repository also writes license_type.                           *)
(***************************************************************************)
LinkFails(a, company_name, outcome, company_id) ==
    /\ last' = Ran("link", a, company_name, outcome, company_id, FALSE,
                   IF a \in Affiliates THEN docs[a] ELSE EmptyDoc)
    /\ UNCHANGED <<companies, kind, docs, nUpdates, tasks>>

(* link_company that leaves the customer's license_type alone.             *)
LinkedLicenseType_NotPropagated(license_type, company_ref) == license_type

(* license_type written by CustomerRepository.link_company: the company's  *)
(* when it has one, else the field is not part of the $set.                *)
LinkedLicenseType(license_type, company_ref) ==
    IF company_ref.license_type # None
    THEN company_ref.license_type
    ELSE license_type

CustomerLinkCompany(a, company_name) ==
    /\ a \in Affiliates => kind[a] = "customer"
    /\ LET company_ref == ResolveCompanyReference(company_name, TRUE) IN
       IF company_ref = NoRef
       THEN LinkFails(a, company_name, "CompanyNotEligible", NoCompany)
       ELSE IF a \notin Affiliates
       THEN LinkFails(a, company_name, "AffiliateNotFound", company_ref.id)
       ELSE IF AlreadyLinkedActive(docs[a].company, company_ref)
       THEN LinkFails(a, company_name, "AlreadyLinked", company_ref.id)
       ELSE /\ docs' = [docs EXCEPT ![a] =
                    [company |-> LinkedCompanies(docs[a].company, company_ref),
                     license_type |->
                        LinkedLicenseType(docs[a].license_type, company_ref),
                     shape |-> "array"]]
            /\ last' = Ran("link", a, company_name, "ok", company_ref.id, TRUE,
                           docs[a])
            /\ UNCHANGED <<companies, kind, nUpdates, tasks>>

TeamLinkCompany(a, company_name, k) ==
    /\ a \in Affiliates => kind[a] = k
    /\ LET company_ref == ResolveCompanyReference(company_name, TRUE) IN
       IF company_ref = NoRef
       THEN LinkFails(a, company_name, "CompanyNotEligible", NoCompany)
       ELSE IF a \notin Affiliates
       THEN LinkFails(a, company_name, "AffiliateNotFound", company_ref.id)
       ELSE IF AlreadyLinkedActive(docs[a].company, company_ref)
       THEN LinkFails(a, company_name, "AlreadyLinked", company_ref.id)
       ELSE /\ docs' = [docs EXCEPT ![a].company =
                            LinkedCompanies(docs[a].company, company_ref)]
            /\ last' = Ran("link", a, company_name, "ok", company_ref.id, TRUE,
                           docs[a])
            /\ UNCHANGED <<companies, kind, nUpdates, tasks>>

IndicadorLinkCompany(a, company_name) == TeamLinkCompany(a, company_name, "indicador")

ParceiroLinkCompany(a, company_name) == TeamLinkCompany(a, company_name, "parceiro")

(***************************************************************************)
(* unlink_company of the three repositories, the same code in each.        *)
(***************************************************************************)
UnlinkFails(a, outcome) ==
    /\ last' = Ran("unlink", a, "", outcome, NoCompany, FALSE,
                   IF a \in Affiliates THEN docs[a] ELSE EmptyDoc)
    /\ UNCHANGED <<companies, kind, docs, nUpdates, tasks>>

(* unlink_company without the empty-array check: the array is written back *)
(* whatever it holds.                                                      *)
UnlinkCompany_WritesEmpty(a, k) ==
    /\ a \in Affiliates => kind[a] = k
    /\ IF a \notin Affiliates
       THEN UnlinkFails(a, "AffiliateNotFound")
       ELSE /\ docs' = [docs EXCEPT ![a].company =
                    IF docs[a].company = <<>> THEN <<>>
                    ELSE UnlinkedCompanies(docs[a].company)]
            /\ last' = Ran("unlink", a, "", "ok", NoCompany, TRUE, docs[a])
            /\ UNCHANGED <<companies, kind, nUpdates, tasks>>

UnlinkCompany(a, k) ==
    /\ a \in Affiliates => kind[a] = k
    /\ IF a \notin Affiliates
       THEN UnlinkFails(a, "AffiliateNotFound")
       ELSE IF docs[a].company = <<>>
       THEN UnlinkFails(a, "NothingToUnlink")
       ELSE /\ docs' = [docs EXCEPT ![a].company = UnlinkedCompanies(docs[a].company)]
            /\ last' = Ran("unlink", a, "", "ok", NoCompany, TRUE, docs[a])
            /\ UNCHANGED <<companies, kind, nUpdates, tasks>>

CustomerUnlinkCompany(a) == UnlinkCompany(a, "customer")

IndicadorUnlinkCompany(a) == UnlinkCompany(a, "indicador")

ParceiroUnlinkCompany(a) == UnlinkCompany(a, "parceiro")

(***************************************************************************)
(* PUT /companies/{id}: the Company document is written, then a changed    *)
(* name and a changed, non-empty license type are cascaded to customers.   *)
(* company_update maps the fields present in the request to their values.  *)
(***************************************************************************)
CompanyFields == {"name", "active", "status", "license_type"}

CompanyUpdates ==
    {[name |-> n] : n \in CompanyNames}
    \cup {[license_type |-> l] : l \in LicenseTypes \cup {None}}
    \cup {[active |-> b] : b \in BOOLEAN}
    \cup {[status |-> s] : s \in Statuses}
    \cup {[name |-> n, license_type |-> l] : n \in CompanyNames, l \in LicenseTypes}
    \cup {[active |-> b, status |-> s] : b \in BOOLEAN, s \in Statuses}

(* CompanyRepository.update: $set of the fields present in the request.    *)
UpdatedCompany(current_company, company_update) ==
    [f \in CompanyFields |->
        IF f \in DOMAIN company_update THEN company_update[f] ELSE current_company[f]]

UpdateCompany(c, company_update) ==
    /\ c \in DOMAIN companies
    /\ nUpdates < MaxCompanyUpdates
    /\ LET current_company == companies[c]
           company == UpdatedCompany(current_company, company_update)
           name_changed ==
                /\ "name" \in DOMAIN company_update
                /\ current_company.name # company.name
           license_changed ==
                /\ "license_type" \in DOMAIN company_update
                /\ current_company.license_type # company.license_type
                /\ company.license_type # None
           Renamed(doc) ==
                IF name_changed /\ ElemMatchCompany(doc, c)
                THEN RenamedDoc(doc, c, company.name) ELSE doc
           Licensed(doc) ==
                IF license_changed /\ EmbedsCompany(doc, c)
                THEN LicenseCascadedDoc(doc, c, company.license_type) ELSE doc
       IN /\ companies' = [companies EXCEPT ![c] = company]
          /\ docs' = [a \in DOMAIN docs |->
                        IF kind[a] = "customer"
                        THEN Licensed(Renamed(docs[a]))
                        ELSE docs[a]]
    /\ nUpdates' = nUpdates + 1
    /\ last' = Ran("update_company", NoSuchAffiliate, company_update, "ok", c,
                   FALSE, Collections)
    /\ UNCHANGED <<kind, tasks>>

(***************************************************************************)
(* update_company_active_status of the three repositories: every document  *)
(* of the collection that embeds the company id is rewritten.              *)
(***************************************************************************)
UpdateCompanyActiveStatus(k, company_id, is_company_active) ==
    /\ docs' = [a \in DOMAIN docs |->
                    IF kind[a] = k /\ EmbedsCompany(docs[a], company_id)
                    THEN ActiveStatusCascadedDoc(docs[a], company_id, is_company_active)
                    ELSE docs[a]]
    /\ last' = Ran("update_company_active_status", NoSuchAffiliate,
                   [collection |-> k, is_company_active |-> is_company_active],
                   "ok", company_id, FALSE, Collections)
    /\ UNCHANGED <<companies, kind, nUpdates, tasks>>

CustomerUpdateCompanyActiveStatus(company_id, is_company_active) ==
    UpdateCompanyActiveStatus("customer", company_id, is_company_active)

IndicadorUpdateCompanyActiveStatus(company_id, is_company_active) ==
    UpdateCompanyActiveStatus("indicador", company_id, is_company_active)

ParceiroUpdateCompanyActiveStatus(company_id, is_company_active) ==
    UpdateCompanyActiveStatus("parceiro", company_id, is_company_active)

(***************************************************************************)
(* update_license_type_by_company of the three repositories: license_type  *)
(* is set on every document of the collection that holds the company as an *)
(* active reference.  No company array is written.                         *)
(***************************************************************************)
UpdateLicenseTypeByCompany(k, company_id, new_license_type) ==
    /\ docs' = [a \in DOMAIN docs |->
                    IF kind[a] = k /\ EmbedsCompany(docs[a], company_id)
                    THEN LicenseCascadedDoc(docs[a], company_id, new_license_type)
                    ELSE docs[a]]
    /\ last' = Ran("update_license_type_by_company", NoSuchAffiliate,
                   [collection |-> k, new_license_type |-> new_license_type],
                   "ok", company_id, FALSE, Collections)
    /\ UNCHANGED <<companies, kind, nUpdates, tasks>>

CustomerUpdateLicenseTypeByCompany(company_id, new_license_type) ==
    UpdateLicenseTypeByCompany("customer", company_id, new_license_type)

IndicadorUpdateLicenseTypeByCompany(company_id, new_license_type) ==
    UpdateLicenseTypeByCompany("indicador", company_id, new_license_type)

ParceiroUpdateLicenseTypeByCompany(company_id, new_license_type) ==
    UpdateLicenseTypeByCompany("parceiro", company_id, new_license_type)

(***************************************************************************)
(* DELETE /companies/{id}: CustomerRepository.clear_company_reference,     *)
(* then CompanyRepository.delete.  No other collection is touched.         *)
(***************************************************************************)
DeleteCompany(c) ==
    /\ c \in DOMAIN companies
    /\ docs' = [a \in DOMAIN docs |->
                    IF kind[a] = "customer" /\ ElemMatchCompany(docs[a], c)
                    THEN ClearedDoc(docs[a], c)
                    ELSE docs[a]]
    /\ companies' = [d \in DOMAIN companies \ {c} |-> companies[d]]
    /\ last' = Ran("delete_company", NoSuchAffiliate, "", "ok", c, FALSE,
                   Collections)
    /\ UNCHANGED <<kind, nUpdates, tasks>>

AffiliateIds == Affiliates \cup {NoSuchAffiliate}

Next ==
    \/ \E a \in AffiliateIds, n \in LinkNames : CustomerLinkCompany(a, n)
    \/ \E a \in AffiliateIds, n \in LinkNames : IndicadorLinkCompany(a, n)
    \/ \E a \in AffiliateIds, n \in LinkNames : ParceiroLinkCompany(a, n)
    \/ \E a \in AffiliateIds : CustomerUnlinkCompany(a)
    \/ \E a \in AffiliateIds : IndicadorUnlinkCompany(a)
    \/ \E a \in AffiliateIds : ParceiroUnlinkCompany(a)
    \/ \E c \in Companies, u \in CompanyUpdates : UpdateCompany(c, u)
    \/ \E c \in Companies, v \in BOOLEAN : CustomerUpdateCompanyActiveStatus(c, v)
    \/ \E c \in Companies, v \in BOOLEAN : IndicadorUpdateCompanyActiveStatus(c, v)
    \/ \E c \in Companies, v \in BOOLEAN : ParceiroUpdateCompanyActiveStatus(c, v)

Spec == Init /\ [][Next]_vars

(***************************************************************************)
(* The cascades on stored documents.  The collections start with documents *)
(* as earlier operations left them: an array of references to distinct     *)
(* companies, at most one of them flagged active, each under the name the  *)
(* company had when it was linked; or a single reference object written    *)
(* before the array existed.                                               *)
(***************************************************************************)
StoredAffiliates == {1, 2}

StoredReferences ==
    {[id |-> c, name |-> InitialName(c), isCompanyActive |-> b] :
        c \in Companies, b \in BOOLEAN}

StoredArrays ==
    {<<>>}
    \cup {<<r>> : r \in StoredReferences}
    \cup {pair \in {<<r, q>> : r \in StoredReferences, q \in StoredReferences} :
                /\ pair[1].id # pair[2].id
                /\ ~(pair[1].isCompanyActive /\ pair[2].isCompanyActive)}

StoredObjects == {[id |-> c, name |-> InitialName(c)] : c \in Companies}

StoredDocs(k) ==
    {[company |-> refs, license_type |-> lt, shape |-> "array"] :
        refs \in StoredArrays,
        lt \in IF k = "customer" THEN LicenseTypes ELSE {None}}
    \cup {[company |-> obj, license_type |-> lt, shape |-> "object"] :
        obj \in StoredObjects,
        lt \in IF k = "customer" THEN LicenseTypes ELSE {None}}

CascadeInit ==
    /\ companies = [c \in Companies |->
            [name |-> InitialName(c), active |-> TRUE, status |-> "ativo",
             license_type |-> InitialLicense(c)]]
    /\ kind \in [StoredAffiliates -> Kinds]
    /\ docs \in [StoredAffiliates -> UNION {StoredDocs(k) : k \in Kinds}]
    /\ \A a \in StoredAffiliates : docs[a] \in StoredDocs(kind[a])
    /\ last = Ran("init", NoSuchAffiliate, "", "ok", NoCompany, FALSE, EmptyDoc)
    /\ nUpdates = 0
    /\ tasks = <<>>

(* Requests to PUT /companies/{id} that start a cascade or should.         *)
CascadeUpdates ==
    {[name |-> "Gamma"], [active |-> FALSE],
     [name |-> "Gamma", license_type |-> "Hub"]}
    \cup {[license_type |-> l] : l \in LicenseTypes}

(* The collections are as stored: no operation has run on them yet.        *)
AsStored == last.op = "init"

(* One operation on a company runs on the stored collections.              *)
CascadeNext ==
    \/ \E c \in Companies, u \in CascadeUpdates :
            AsStored /\ UpdateCompany(c, u)
    \/ \E c \in Companies :
            AsStored /\ DeleteCompany(c)
    \/ \E c \in Companies, v \in BOOLEAN :
            AsStored /\ CustomerUpdateCompanyActiveStatus(c, v)
    \/ \E c \in Companies, v \in BOOLEAN :
            AsStored /\ IndicadorUpdateCompanyActiveStatus(c, v)
    \/ \E c \in Companies, v \in BOOLEAN :
            AsStored /\ ParceiroUpdateCompanyActiveStatus(c, v)
    \/ \E c \in Companies, l \in LicenseTypes :
            AsStored /\ CustomerUpdateLicenseTypeByCompany(c, l)
    \/ \E c \in Companies, l \in LicenseTypes :
            AsStored /\ IndicadorUpdateLicenseTypeByCompany(c, l)
    \/ \E c \in Companies, l \in LicenseTypes :
            AsStored /\ ParceiroUpdateLicenseTypeByCompany(c, l)

CascadeSpec == CascadeInit /\ [][CascadeNext]_vars

(***************************************************************************)
(* Properties.                                                             *)
(***************************************************************************)

(* Number of references of an array that are flagged active.               *)
ActiveCount(refs) ==
    Cardinality({i \in 1..Len(refs) : refs[i].isCompanyActive})

(* The operation that ran last was a link that succeeded on a document.    *)
LinkSucceeded ==
    last.op = "link" /\ last.outcome = "ok" /\ last.aff \in Affiliates

(* C1: starting from an empty company array, after any sequence of link    *)
(* and unlink calls, successful or failed, the stored array holds at most  *)
(* one reference flagged active.                                           *)
C1_SingleActive ==
    \A a \in Affiliates : ActiveCount(docs[a].company) <= 1

(* A second company was linked: the array holds history and one active     *)
(* reference.                                                              *)
C1_Witness ==
    /\ LinkSucceeded
    /\ Len(docs[last.aff].company) = 2
    /\ ActiveCount(last.before.company) = 1
    /\ ActiveCount(docs[last.aff].company) = 1

(* C2: when link succeeds, the stored array has exactly one reference      *)
(* flagged active and it carries the id of the company the given name      *)
(* resolves to (the company stored under the trimmed name).                *)
C2_LinkPostcondition ==
    LinkSucceeded =>
        LET refs == docs[last.aff].company IN
        /\ ActiveCount(refs) = 1
        /\ \A i \in 1..Len(refs) :
              refs[i].isCompanyActive =>
                 /\ refs[i].id \in Companies
                 /\ companies[refs[i].id].name = Strip(last.arg)
                 /\ \A d \in Companies :
                       companies[d].name = Strip(last.arg) => refs[i].id <= d

(* A link that reactivated an inactive entry (the array kept its length).  *)
C2_Witness ==
    /\ LinkSucceeded
    /\ Len(last.before.company) = 2
    /\ Len(docs[last.aff].company) = 2
    /\ docs[last.aff].company[1].isCompanyActive

(* C3: when link succeeds for a company whose id is not in the array, the  *)
(* stored array is the previous array, every reference kept in order and   *)
(* marked inactive, followed by one new active reference; and no           *)
(* successful link removes a reference.                                    *)
C3_HistoryPreservedOnLink ==
    LinkSucceeded =>
        LET before == last.before.company
            after == docs[last.aff].company
        IN /\ Len(after) >= Len(before)
           /\ \A i \in 1..Len(before) : after[i].id = before[i].id
           /\ (\A i \in 1..Len(before) : before[i].id # last.company) =>
                 /\ Len(after) = Len(before) + 1
                 /\ \A i \in 1..Len(before) :
                       after[i] = [before[i] EXCEPT !.isCompanyActive = FALSE]
                 /\ after[Len(after)].id = last.company
                 /\ after[Len(after)].isCompanyActive

(* [Acme active] then link Beta gives [Acme inactive, Beta active].        *)
C3_Witness ==
    /\ LinkSucceeded
    /\ Len(last.before.company) = 1
    /\ last.before.company[1].isCompanyActive
    /\ Len(docs[last.aff].company) = 2
    /\ ~docs[last.aff].company[1].isCompanyActive
    /\ docs[last.aff].company[2].isCompanyActive
    /\ docs[last.aff].company[2].id # docs[last.aff].company[1].id

(* C4: when link is called for a company whose id is in the array as an    *)
(* inactive reference, it succeeds, the array keeps its length and its ids *)
(* in place (no second entry with that id), that entry becomes the active  *)
(* one with its name refreshed from the Company, and every other reference *)
(* is inactive and otherwise unchanged.                                    *)
C4_ReactivationOverDuplication ==
    (/\ last.op = "link"
     /\ last.aff \in Affiliates
     /\ last.company # NoCompany
     /\ \E i \in 1..Len(last.before.company) :
            /\ last.before.company[i].id = last.company
            /\ ~last.before.company[i].isCompanyActive)
    =>
        LET before == last.before.company
            after == docs[last.aff].company
        IN /\ last.outcome = "ok"
           /\ Len(after) = Len(before)
           /\ \A i \in 1..Len(before) :
                 IF before[i].id = last.company
                 THEN after[i] = [before[i] EXCEPT
                                    !.isCompanyActive = TRUE,
                                    !.name = companies[last.company].name]
                 ELSE after[i] = [before[i] EXCEPT !.isCompanyActive = FALSE]

(* A reactivation that found a stale name in the inactive entry.           *)
C4_Witness ==
    /\ LinkSucceeded
    /\ Len(last.before.company) = 2
    /\ Len(docs[last.aff].company) = 2
    /\ \E i \in 1..2 :
          /\ last.before.company[i].id = last.company
          /\ ~last.before.company[i].isCompanyActive
          /\ last.before.company[i].name # docs[last.aff].company[i].name
          /\ docs[last.aff].company[i].isCompanyActive

(* C5: link on an affiliate whose array holds an active reference with the *)
(* resolved company's id fails with AlreadyLinked, issues no write and     *)
(* leaves the stored document (array and license_type) unchanged.          *)
C5_AlreadyLinked ==
    (/\ last.op = "link"
     /\ last.aff \in Affiliates
     /\ last.company # NoCompany
     /\ \E i \in 1..Len(last.before.company) :
            /\ last.before.company[i].id = last.company
            /\ last.before.company[i].isCompanyActive)
    =>
        /\ last.outcome = "AlreadyLinked"
        /\ ~last.wrote
        /\ docs[last.aff] = last.before

(* Linking the active company again, with history in the array.            *)
C5_Witness ==
    /\ last.op = "link"
    /\ last.outcome = "AlreadyLinked"
    /\ last.aff \in Affiliates
    /\ Len(docs[last.aff].company) = 2
    /\ docs[last.aff].company[2].id = last.company
    /\ docs[last.aff].company[2].isCompanyActive

(* C6: unlink on an existing affiliate whose array is empty fails with     *)
(* NothingToUnlink and does not write; the document is unchanged, so a     *)
(* repeated call meets the same array and ends the same way.               *)
C6_UnlinkOnEmpty ==
    (/\ last.op = "unlink"
     /\ last.aff \in Affiliates
     /\ last.before.company = <<>>)
    =>
        /\ last.outcome = "NothingToUnlink"
        /\ ~last.wrote
        /\ docs[last.aff] = last.before

(* unlink was called on a stored document with an empty array and failed.  *)
C6_Witness ==
    /\ last.op = "unlink"
    /\ last.outcome = "NothingToUnlink"
    /\ last.aff \in Affiliates
    /\ last.before.company = <<>>
    /\ docs[last.aff].company = <<>>

(* C7: unlink on a non-empty array removes exactly one reference, the      *)
(* first one flagged active, or the one at index 0 when none is active;    *)
(* every other reference stays, with its flag and in the same order.       *)
C7_UnlinkRemovalRule ==
    (/\ last.op = "unlink"
     /\ last.aff \in Affiliates
     /\ last.before.company # <<>>)
    =>
        LET before == last.before.company
            after == docs[last.aff].company
            actives == {i \in 1..Len(before) : before[i].isCompanyActive}
            k == IF actives = {} THEN 1
                 ELSE CHOOSE i \in actives : \A j \in actives : i <= j
        IN /\ last.outcome = "ok"
           /\ Len(after) = Len(before) - 1
           /\ \A i \in 1..Len(after) :
                 after[i] = IF i < k THEN before[i] ELSE before[i + 1]

(* unlink on two inactive references: the one at index 0 is removed.       *)
C7_Witness ==
    /\ last.op = "unlink"
    /\ last.outcome = "ok"
    /\ Len(last.before.company) = 2
    /\ ActiveCount(last.before.company) = 0
    /\ docs[last.aff].company = <<last.before.company[2]>>

(* C8: when link succeeds on a customer, the customer's license_type is    *)
(* the linked company's license type when it has one, and is unchanged     *)
(* when the company has none; it is stored with the new array.             *)
C8_LicensePropagationOnLink ==
    (LinkSucceeded /\ kind[last.aff] = "customer") =>
        LET L == companies[last.company].license_type IN
        /\ L # None => docs[last.aff].license_type = L
        /\ L = None => docs[last.aff].license_type = last.before.license_type
        /\ docs[last.aff].company # last.before.company

(* A link that changed the customer's license type.                        *)
C8_Witness ==
    /\ LinkSucceeded
    /\ kind[last.aff] = "customer"
    /\ docs[last.aff].license_type # last.before.license_type
    /\ docs[last.aff].license_type = companies[last.company].license_type

(* C9: in every state reached by link, unlink, company license-type change *)
(* with its cascade and the active-status cascade, a customer whose array  *)
(* has an active reference to a company that has a license type has that   *)
(* company's current license type as its own license_type.                 *)
C9_LicenseTracking ==
    \A a \in Affiliates :
        kind[a] = "customer" =>
            \A i \in 1..Len(docs[a].company) :
                LET ref == docs[a].company[i] IN
                (ref.isCompanyActive /\ companies[ref.id].license_type # None)
                    => docs[a].license_type = companies[ref.id].license_type

(* C10: resolution with validate_status = true, and so link, succeeds only *)
(* for a company whose status is "ativo" and whose active flag is true; a  *)
(* company with the active flag set but suspended or in negotiation is     *)
(* rejected like a missing one.                                            *)
C10_ResolverEligibility ==
    /\ LinkSucceeded =>
          /\ companies[last.company].status = "ativo"
          /\ companies[last.company].active
    /\ (/\ last.op = "link"
        /\ last.aff \in Affiliates
        /\ \E c \in Companies :
              /\ companies[c].name = Strip(last.arg)
              /\ companies[c].status # "ativo")
       => last.outcome = "CompanyNotEligible"

(***************************************************************************)
(* Properties of the cascades.                                             *)
(***************************************************************************)

(* The operation that ran last was a company update that changed the name. *)
CompanyRenamed ==
    /\ last.op = "update_company"
    /\ "name" \in DOMAIN last.arg
    /\ last.arg.name # last.before.companies[last.company].name

(* C11: after a rename of company X and its cascade, in every customer     *)
(* document's reference array every reference with X's id carries the new  *)
(* name, active or not, and nothing else of the array changed: references  *)
(* to other companies keep their names.                                    *)
C11_RenameCompleteness ==
    CompanyRenamed =>
        \A a \in DOMAIN docs :
            (kind[a] = "customer" /\ docs[a].shape = "array") =>
                LET before == last.before.docs[a].company
                    after == docs[a].company
                IN /\ Len(after) = Len(before)
                   /\ \A i \in 1..Len(before) :
                         IF before[i].id = last.company
                         THEN /\ after[i].name = companies[last.company].name
                              /\ after[i].name = last.arg.name
                              /\ after[i] = [before[i] EXCEPT !.name = last.arg.name]
                         ELSE after[i] = before[i]

(* A rename reached an active reference of one customer and a historical   *)
(* reference of another, next to a reference that kept its name.           *)
C11_Witness ==
    /\ CompanyRenamed
    /\ \E a, b \in DOMAIN docs :
          /\ a # b
          /\ kind[a] = "customer" /\ kind[b] = "customer"
          /\ docs[a].shape = "array" /\ docs[b].shape = "array"
          /\ Len(docs[a].company) = 1
          /\ docs[a].company[1].id = last.company
          /\ docs[a].company[1].isCompanyActive
          /\ docs[a].company[1].name = last.arg.name
          /\ Len(docs[b].company) = 2
          /\ docs[b].company[1].id = last.company
          /\ ~docs[b].company[1].isCompanyActive
          /\ docs[b].company[1].name = last.arg.name
          /\ docs[b].company[2].name = last.before.docs[b].company[2].name
          /\ last.before.docs[b].company[1].name # last.arg.name

(* C12: after the company update changed company X's name, no Indicador or *)
(* Parceiro document that embeds a reference with X's id still carries the *)
(* old name.                                                               *)
C12_RenameReachesTeams ==
    CompanyRenamed =>
        \A a \in DOMAIN docs :
            (kind[a] \in {"indicador", "parceiro"} /\ docs[a].shape = "array") =>
                \A i \in 1..Len(docs[a].company) :
                    docs[a].company[i].id = last.company =>
                        docs[a].company[i].name
                            # last.before.companies[last.company].name

(* C13: a customer stored in the single-object shape {id, name} is read as *)
(* a one-element reference array, and after a rename cascade for that      *)
(* company id the name stored in its embedded reference is the new company *)
(* name.                                                                   *)
C13_LegacyObjectRenamed ==
    /\ \A a \in DOMAIN docs :
          docs[a].shape = "object" =>
             /\ Len(NormalizeCompanyArrayField(docs[a])) = 1
             /\ NormalizeCompanyArrayField(docs[a])[1] = docs[a].company
    /\ CompanyRenamed =>
          \A a \in DOMAIN docs :
              (/\ kind[a] = "customer"
               /\ docs[a].shape = "object"
               /\ docs[a].company.id = last.company)
              => docs[a].company.name = companies[last.company].name

(* The document holds the company as a reference that counts as active.    *)
HoldsActive(doc, company_id) ==
    LET refs == NormalizeCompanyArrayField(doc) IN
    \E i \in 1..Len(refs) : refs[i].id = company_id /\ IsActiveRef(refs[i])

(* C14: the license-type cascade of a collection for company X and type L  *)
(* sets license_type to L on the documents of the collection that hold X   *)
(* as an active reference; every other document keeps its license_type;    *)
(* no company field is modified.                                           *)
C14_LicenseCascadeSelectivity ==
    last.op = "update_license_type_by_company" =>
        \A a \in DOMAIN docs :
            LET before == last.before.docs[a] IN
            /\ docs[a].company = before.company
            /\ docs[a].shape = before.shape
            /\ IF kind[a] = last.arg.collection /\ HoldsActive(before, last.company)
               THEN docs[a].license_type = last.arg.new_license_type
               ELSE docs[a].license_type = before.license_type

(* The cascade changed the license of the customer whose active reference  *)
(* is X and left the customer that holds X as history on another license.  *)
C14_Witness ==
    /\ last.op = "update_license_type_by_company"
    /\ last.arg.collection = "customer"
    /\ \E a, b \in DOMAIN docs :
          /\ kind[a] = "customer" /\ kind[b] = "customer"
          /\ docs[a].shape = "array" /\ docs[b].shape = "array"
          /\ \E i \in 1..Len(docs[a].company) :
                /\ docs[a].company[i].id = last.company
                /\ docs[a].company[i].isCompanyActive
          /\ last.before.docs[a].license_type # last.arg.new_license_type
          /\ docs[a].license_type = last.arg.new_license_type
          /\ \E i \in 1..Len(docs[b].company) :
                /\ docs[b].company[i].id = last.company
                /\ ~docs[b].company[i].isCompanyActive
          /\ docs[b].license_type # last.arg.new_license_type

(* C15: when the company update changes a company's active flag to false,  *)
(* every affiliate whose active reference was that company has that        *)
(* reference flagged inactive once the update has completed.               *)
C15_DeactivationCascaded ==
    (/\ last.op = "update_company"
     /\ "active" \in DOMAIN last.arg
     /\ ~last.arg.active
     /\ last.before.companies[last.company].active)
    =>
        \A a \in DOMAIN docs :
            docs[a].shape = "array" =>
                \A i \in 1..Len(docs[a].company) :
                    (/\ last.before.docs[a].company[i].id = last.company
                     /\ last.before.docs[a].company[i].isCompanyActive)
                    => ~docs[a].company[i].isCompanyActive

(* C16: when the delete-company operation has removed the Company          *)
(* document, no affiliate document of any collection, in either shape,     *)
(* embeds a reference with that company's id.                              *)
C16_DeletionStripsReferences ==
    last.op = "delete_company" =>
        /\ last.company \notin DOMAIN companies
        /\ \A a \in DOMAIN docs : ~EmbedsCompany(docs[a], last.company)

(* C20: update_company_active_status(X, v) on a collection sets the flag   *)
(* of the reference to X to v in every array with exactly one reference,   *)
(* and in a longer array only on a reference to X that was flagged active; *)
(* every other reference, and every document of another collection, is     *)
(* unchanged, and no license_type is written.                              *)
C20_ActiveStatusCascadeRule ==
    last.op = "update_company_active_status" =>
        \A a \in DOMAIN docs :
            LET before == last.before.docs[a]
                v == last.arg.is_company_active
            IN /\ docs[a].license_type = before.license_type
               /\ docs[a].shape = before.shape
               /\ kind[a] # last.arg.collection => docs[a] = before
               /\ (kind[a] = last.arg.collection /\ before.shape = "array") =>
                     /\ Len(docs[a].company) = Len(before.company)
                     /\ \A i \in 1..Len(before.company) :
                           IF /\ before.company[i].id = last.company
                              /\ \/ Len(before.company) = 1
                                 \/ before.company[i].isCompanyActive
                           THEN docs[a].company[i] =
                                    [before.company[i] EXCEPT !.isCompanyActive = v]
                           ELSE docs[a].company[i] = before.company[i]

(* The cascade with v = true flagged the only, inactive, reference of one  *)
(* document active and left the historical reference to the same company   *)
(* in a two-reference array of another document inactive.                  *)
C20_Witness ==
    /\ last.op = "update_company_active_status"
    /\ last.arg.is_company_active
    /\ \E a, b \in DOMAIN docs :
          /\ kind[a] = last.arg.collection /\ kind[b] = last.arg.collection
          /\ docs[a].shape = "array" /\ docs[b].shape = "array"
          /\ Len(docs[a].company) = 1
          /\ docs[a].company[1].id = last.company
          /\ ~last.before.docs[a].company[1].isCompanyActive
          /\ docs[a].company[1].isCompanyActive
          /\ Len(docs[b].company) = 2
          /\ docs[b].company[1].id = last.company
          /\ ~docs[b].company[1].isCompanyActive
          /\ docs[b].company[2].isCompanyActive

(***************************************************************************)
(* create and update of the three repositories with a company list in the  *)
(* request.  The models type the field List[Union[CompanyReference, dict]]; *)
(* a request item is a dict {id, name} with or without an isCompanyActive  *)
(* key, and the repositories store the dicts they build from the items.    *)
(***************************************************************************)
MaxSupplied == 2

SuppliedItems ==
    {[id |-> c, name |-> InitialName(c)] : c \in Companies}
    \cup {[id |-> c, name |-> InitialName(c), isCompanyActive |-> b] :
            c \in Companies, b \in BOOLEAN}

SuppliedLists == UNION {[1..n -> SuppliedItems] : n \in 0..MaxSupplied}

(* The loop of the Parceiro repository: every item is appended as it came. *)
FirstIsActive_KeepsCallerFlags(company_list) == company_list

(* The loop of the Customer and Indicador repositories over the request    *)
(* list: company_item["isCompanyActive"] = (idx == 0) on a copy of each    *)
(* item.                                                                   *)
FirstIsActive(company_list) ==
    [i \in 1..Len(company_list) |-> WithActiveFlag(company_list[i], i = 1)]

(* companies_list as the repository of collection k builds it.             *)
CompaniesList(k, company_list) ==
    IF k = "parceiro" THEN company_list ELSE FirstIsActive(company_list)

(* insert_one of a new document.                                           *)
CreateAffiliate(k, a, license_type, company_list) ==
    /\ a \in Affiliates
    /\ a \notin DOMAIN docs
    /\ LET doc == [company |-> CompaniesList(k, company_list),
                   license_type |-> license_type,
                   shape |-> "array"]
       IN /\ docs' = [x \in DOMAIN docs \cup {a} |-> IF x = a THEN doc ELSE docs[x]]
          /\ kind' = [x \in DOMAIN kind \cup {a} |-> IF x = a THEN k ELSE kind[x]]
    /\ last' = Ran("create", a, company_list, "ok", NoCompany, TRUE, EmptyDoc)
    /\ UNCHANGED <<companies, nUpdates, tasks>>

CustomerCreate(a, license_type, company_list) ==
    CreateAffiliate("customer", a, license_type, company_list)

IndicadorCreate(a, company_list) ==
    CreateAffiliate("indicador", a, None, company_list)

ParceiroCreate(a, company_list) ==
    CreateAffiliate("parceiro", a, None, company_list)

(* update with the company field set in the request: $set of the list the  *)
(* repository builds; an id that matches no document writes nothing.       *)
UpdateAffiliate(k, a, company_list) ==
    /\ a \in DOMAIN docs => kind[a] = k
    /\ IF a \notin DOMAIN docs
       THEN /\ last' = Ran("update", a, company_list, "AffiliateNotFound",
                           NoCompany, FALSE, EmptyDoc)
            /\ UNCHANGED <<companies, kind, docs, nUpdates, tasks>>
       ELSE /\ docs' = [docs EXCEPT ![a].company = CompaniesList(k, company_list),
                                    ![a].shape = "array"]
            /\ last' = Ran("update", a, company_list, "ok", NoCompany, TRUE, docs[a])
            /\ UNCHANGED <<companies, kind, nUpdates, tasks>>

CustomerUpdate(a, company_list) == UpdateAffiliate("customer", a, company_list)

IndicadorUpdate(a, company_list) == UpdateAffiliate("indicador", a, company_list)

ParceiroUpdate(a, company_list) == UpdateAffiliate("parceiro", a, company_list)

(* The collections start empty.                                            *)
WriteInit ==
    /\ companies = [c \in Companies |->
            [name |-> InitialName(c), active |-> TRUE, status |-> "ativo",
             license_type |-> InitialLicense(c)]]
    /\ kind = <<>>
    /\ docs = <<>>
    /\ last = Ran("init", NoSuchAffiliate, "", "ok", NoCompany, FALSE, EmptyDoc)
    /\ nUpdates = 0
    /\ tasks = <<>>

WriteNext ==
    \/ \E a \in Affiliates, lt \in LicenseTypes, l \in SuppliedLists :
            CustomerCreate(a, lt, l)
    \/ \E a \in Affiliates, l \in SuppliedLists : IndicadorCreate(a, l)
    \/ \E a \in Affiliates, l \in SuppliedLists : ParceiroCreate(a, l)
    \/ \E a \in AffiliateIds, l \in SuppliedLists : CustomerUpdate(a, l)
    \/ \E a \in AffiliateIds, l \in SuppliedLists : IndicadorUpdate(a, l)
    \/ \E a \in AffiliateIds, l \in SuppliedLists : ParceiroUpdate(a, l)

WriteSpec == WriteInit /\ [][WriteNext]_vars

(* The stored reference has the isCompanyActive key, with the given value.  *)
Flagged(ref, value) ==
    "isCompanyActive" \in DOMAIN ref /\ ref.isCompanyActive = value

(* The operation that ran last stored a caller-supplied list of at least   *)
(* one company in a document of one of the given collections.              *)
StoredSuppliedList(collections) ==
    /\ last.op \in {"create", "update"}
    /\ last.outcome = "ok"
    /\ kind[last.aff] \in collections
    /\ Len(last.arg) >= 1

(* C17: create and update of a Customer or Indicador with a caller-supplied *)
(* list of N >= 1 company entries store an array of the N entries in which *)
(* the entry at index 0 is flagged active and every later entry inactive,  *)
(* whatever flags the caller supplied.                                     *)
C17_PositionZeroWins ==
    StoredSuppliedList({"customer", "indicador"}) =>
        LET stored == docs[last.aff].company IN
        /\ Len(stored) = Len(last.arg)
        /\ Flagged(stored[1], TRUE)
        /\ \A i \in 2..Len(stored) : Flagged(stored[i], FALSE)
        /\ \A i \in 1..Len(stored) :
              /\ stored[i].id = last.arg[i].id
              /\ stored[i].name = last.arg[i].name

(* The caller flagged the second entry active and the first one inactive;  *)
(* the stored array has them the other way round.                          *)
C17_Witness ==
    /\ StoredSuppliedList({"customer", "indicador"})
    /\ Len(last.arg) = 2
    /\ "isCompanyActive" \in DOMAIN last.arg[1]
    /\ ~last.arg[1].isCompanyActive
    /\ "isCompanyActive" \in DOMAIN last.arg[2]
    /\ last.arg[2].isCompanyActive
    /\ docs[last.aff].company[1].isCompanyActive
    /\ ~docs[last.aff].company[2].isCompanyActive

(* C18: create and update of a Parceiro with a caller-supplied list of     *)
(* N >= 1 company entries store an array with the entry at index 0 flagged *)
(* active and every other entry inactive, whatever flags the caller        *)
(* supplied, as for Customer and Indicador.                                *)
C18_PositionZeroWinsParceiro ==
    StoredSuppliedList({"parceiro"}) =>
        LET stored == docs[last.aff].company IN
        /\ Len(stored) = Len(last.arg)
        /\ Flagged(stored[1], TRUE)
        /\ \A i \in 2..Len(stored) : Flagged(stored[i], FALSE)
        /\ Cardinality({i \in 1..Len(stored) : Flagged(stored[i], TRUE)}) <= 1

(***************************************************************************)
(* link_company when one of its database calls raises.  failing_call names *)
(* the call that raises if it is reached: the Company lookup of the        *)
(* resolver, the read of the affiliate, the write, or (Customer only) the  *)
(* read that follows the write.  NoFailure: every call succeeds.           *)
(***************************************************************************)
NoFailure == "none"

DatabaseCalls == {"find_by_name", "find_by_id", "update_one", "reload"}

(* resolve_company_reference around a lookup that may raise: the except    *)
(* clause logs a warning and returns None.                                 *)
ResolveCompanyReferenceCaught(company_name, validate_status, failing_call) ==
    IF company_name = "" \/ Strip(company_name) = ""
    THEN NoRef
    ELSE IF failing_call = "find_by_name"
         THEN NoRef
         ELSE ResolveCompanyReference(company_name, validate_status)

(* The record of a link with a failing call: raised tells whether the call *)
(* was reached, and so raised.                                             *)
LinkRan(a, company_name, failing_call, raised, outcome, company_id, wrote) ==
    Ran("link", a,
        [company_name |-> company_name, failing_call |-> failing_call,
         raised |-> raised],
        outcome, company_id, wrote,
        IF a \in Affiliates THEN docs[a] ELSE EmptyDoc)

LinkCompanyWithFailure(k, a, company_name, failing_call) ==
    /\ a \in Affiliates => kind[a] = k
    /\ failing_call = "reload" => k = "customer"
    /\ LET company_ref ==
               ResolveCompanyReferenceCaught(company_name, TRUE, failing_call)
           lookup_raised ==
               failing_call = "find_by_name" /\ Strip(company_name) # ""
           Ends(raised, outcome, company_id) ==
               /\ last' = LinkRan(a, company_name, failing_call, raised, outcome,
                                  company_id, FALSE)
               /\ UNCHANGED <<companies, kind, docs, nUpdates, tasks>>
       IN IF company_ref = NoRef
          THEN Ends(lookup_raised, "CompanyNotEligible", NoCompany)
          ELSE IF failing_call = "find_by_id"
          THEN Ends(TRUE, "StorageError", company_ref.id)
          ELSE IF a \notin Affiliates
          THEN Ends(FALSE, "AffiliateNotFound", company_ref.id)
          ELSE IF AlreadyLinkedActive(docs[a].company, company_ref)
          THEN Ends(FALSE, "AlreadyLinked", company_ref.id)
          ELSE IF failing_call = "update_one"
          THEN Ends(TRUE, "StorageError", company_ref.id)
          ELSE /\ docs' = [docs EXCEPT ![a] =
                    [company |-> LinkedCompanies(docs[a].company, company_ref),
                     license_type |->
                        IF k = "customer"
                        THEN LinkedLicenseType(docs[a].license_type, company_ref)
                        ELSE docs[a].license_type,
                     shape |-> "array"]]
               /\ last' = LinkRan(a, company_name, failing_call,
                                  failing_call = "reload",
                                  IF failing_call = "reload"
                                  THEN "StorageError" ELSE "ok",
                                  company_ref.id, TRUE)
               /\ UNCHANGED <<companies, kind, nUpdates, tasks>>

CustomerLinkCompanyWithFailure(a, company_name, failing_call) ==
    LinkCompanyWithFailure("customer", a, company_name, failing_call)

IndicadorLinkCompanyWithFailure(a, company_name, failing_call) ==
    LinkCompanyWithFailure("indicador", a, company_name, failing_call)

ParceiroLinkCompanyWithFailure(a, company_name, failing_call) ==
    LinkCompanyWithFailure("parceiro", a, company_name, failing_call)

StorageNext ==
    \/ \E a \in AffiliateIds, n \in LinkNames, f \in DatabaseCalls \cup {NoFailure} :
            CustomerLinkCompanyWithFailure(a, n, f)
    \/ \E a \in AffiliateIds, n \in LinkNames, f \in DatabaseCalls \cup {NoFailure} :
            IndicadorLinkCompanyWithFailure(a, n, f)
    \/ \E a \in AffiliateIds, n \in LinkNames, f \in DatabaseCalls \cup {NoFailure} :
            ParceiroLinkCompanyWithFailure(a, n, f)
    \/ \E a \in AffiliateIds : CustomerUnlinkCompany(a)
    \/ \E a \in AffiliateIds : IndicadorUnlinkCompany(a)
    \/ \E a \in AffiliateIds : ParceiroUnlinkCompany(a)

StorageSpec == Init /\ [][StorageNext]_vars

(* C19: a database failure at any step of link, the Company lookup of the  *)
(* resolution included, reaches the caller as the storage error; it is     *)
(* never turned into the CompanyNotEligible / not-found error.             *)
C19_StorageErrorsPassThrough ==
    (last.op = "link" /\ last.arg.raised) => last.outcome = "StorageError"

(***************************************************************************)
(* Concurrent requests.  Every handler is a coroutine on one event loop:   *)
(* it runs alone between two awaits, and each awaited database call is one  *)
(* step of its task.  A task is started by its first database call.  It    *)
(* keeps what the handler holds in memory: the resolved reference, the     *)
(* documents whose array it read to write it back (found), the ids whose   *)
(* update_one is still to come (pending) and how it ended.  readAt and wroteAt number the steps at     *)
(* which it read and last wrote the affiliate collection, 0 when it has    *)
(* not.  The variable last is left alone by the steps of a task.           *)
(***************************************************************************)
MaxTasks == 2

Tasks == 1..MaxTasks

Running == "running"

NewTask(op, k, a, arg, company_id) ==
    [op |-> op, collection |-> k, aff |-> a, arg |-> arg, company |-> company_id,
     pc |-> "done", outcome |-> Running, company_ref |-> NoRef,
     current_company |-> NoRef, updated_company |-> NoRef,
     found |-> <<>>, pending |-> <<>>,
     readAt |-> 0, wroteAt |-> 0]

(* Task ids are given out in order of arrival.                             *)
CanStart(t) ==
    /\ t \in Tasks
    /\ t \notin DOMAIN tasks
    /\ \A u \in Tasks : u < t => u \in DOMAIN tasks

Put(t, task) ==
    tasks' = [u \in DOMAIN tasks \cup {t} |-> IF u = t THEN task ELSE tasks[u]]

At(t, op, pc) ==
    /\ t \in DOMAIN tasks
    /\ tasks[t].op = op
    /\ tasks[t].pc = pc
    /\ tasks[t].outcome = Running

Ended(task, outcome) == [task EXCEPT !.pc = "done", !.outcome = outcome]

Largest(S) == CHOOSE x \in S : \A y \in S : y <= x

(* The number of the step being taken.                                     *)
Now ==
    1 + Largest({0} \cup {tasks[t].readAt : t \in DOMAIN tasks}
                    \cup {tasks[t].wroteAt : t \in DOMAIN tasks})

(* update_one / find_one_and_update with {"$set": {"company": value}} that *)
(* keeps the stored references the written value does not hold, as an      *)
(* $addToSet of the new entries would.                                     *)
SetCompany_KeepsNewerEntries(doc, computed) ==
    LET Missing(ref) ==
            \A i \in 1..Len(computed.company) : computed.company[i].id # ref.id
    IN [doc EXCEPT !.company =
                        IF doc.shape = "array" /\ computed.shape = "array"
                        THEN computed.company \o SelectSeq(doc.company, Missing)
                        ELSE computed.company,
                   !.shape = computed.shape]

(* update_one / find_one_and_update with {"$set": {"company": value}}: the *)
(* stored company field is replaced by the value the handler computed from *)
(* the document it read.                                                   *)
SetCompany(doc, computed) ==
    [doc EXCEPT !.company = computed.company, !.shape = computed.shape]

(* link_company, first await: resolve_company_reference.                   *)
LinkResolve(t, k, a, company_name) ==
    /\ CanStart(t)
    /\ a \in DOMAIN docs => kind[a] = k
    /\ LET company_ref == ResolveCompanyReference(company_name, TRUE)
           task == [NewTask("link", k, a, company_name, company_ref.id)
                        EXCEPT !.company_ref = company_ref, !.pc = "read"]
       IN Put(t, IF company_ref = NoRef
                 THEN Ended(task, "CompanyNotEligible")
                 ELSE task)
    /\ UNCHANGED <<companies, kind, docs, last, nUpdates>>

(* link_company, second await: find_by_id / get_by_id, then the checks and *)
(* the new array, computed in memory.                                      *)
LinkRead(t) ==
    /\ At(t, "link", "read")
    /\ LET task == tasks[t]
           a == task.aff
       IN Put(t, IF a \notin DOMAIN docs
                 THEN Ended(task, "AffiliateNotFound")
                 ELSE IF AlreadyLinkedActive(docs[a].company, task.company_ref)
                 THEN Ended([task EXCEPT !.readAt = Now], "AlreadyLinked")
                 ELSE [task EXCEPT !.pc = "write",
                                   !.found = [x \in {a} |-> docs[a]],
                                   !.pending = <<a>>,
                                   !.readAt = Now])
    /\ UNCHANGED <<companies, kind, docs, last, nUpdates>>

(* The document link_company computed from the one it read.                *)
LinkComputed(task) ==
    LET a == task.aff IN
    [task.found[a] EXCEPT
        !.company = LinkedCompanies(task.found[a].company, task.company_ref)]

(* link_company, third await: the $set of the array and, for a customer,   *)
(* of license_type when the company has one.  The read that follows it     *)
(* (Customer) only builds the response.                                    *)
LinkWrite(t) ==
    /\ At(t, "link", "write")
    /\ LET task == tasks[t]
           a == task.aff
           written == SetCompany(docs[a], LinkComputed(task))
       IN /\ docs' = [docs EXCEPT ![a] =
                [written EXCEPT !.license_type =
                    IF task.collection = "customer"
                    THEN LinkedLicenseType(docs[a].license_type, task.company_ref)
                    ELSE docs[a].license_type]]
          /\ Put(t, Ended([task EXCEPT !.pending = <<>>, !.wroteAt = Now], "ok"))
    /\ UNCHANGED <<companies, kind, last, nUpdates>>

(* unlink_company, first await: find_by_id / get_by_id, then the check and *)
(* the new array.                                                          *)
UnlinkRead(t, k, a) ==
    /\ CanStart(t)
    /\ a \in DOMAIN docs => kind[a] = k
    /\ LET task == NewTask("unlink", k, a, "", NoCompany)
       IN Put(t, IF a \notin DOMAIN docs
                 THEN Ended(task, "AffiliateNotFound")
                 ELSE IF docs[a].company = <<>>
                 THEN Ended([task EXCEPT !.readAt = Now], "NothingToUnlink")
                 ELSE [task EXCEPT !.pc = "write",
                                   !.found = [x \in {a} |-> docs[a]],
                                   !.pending = <<a>>,
                                   !.readAt = Now])
    /\ UNCHANGED <<companies, kind, docs, last, nUpdates>>

(* The document unlink_company computed from the one it read.              *)
UnlinkComputed(task) ==
    LET a == task.aff IN
    [task.found[a] EXCEPT !.company = UnlinkedCompanies(task.found[a].company)]

(* unlink_company, second await: the $set of the array.                    *)
UnlinkWrite(t) ==
    /\ At(t, "unlink", "write")
    /\ LET task == tasks[t]
           a == task.aff
       IN /\ docs' = [docs EXCEPT ![a] = SetCompany(docs[a], UnlinkComputed(task))]
          /\ Put(t, Ended([task EXCEPT !.pending = <<>>, !.wroteAt = Now], "ok"))
    /\ UNCHANGED <<companies, kind, last, nUpdates>>

(* The ids of a set of documents in the order find returns them.           *)
InFindOrder(ids) ==
    CHOOSE seq \in [1..Cardinality(ids) -> ids] :
        \A i, j \in 1..Cardinality(ids) : i < j => seq[i] < seq[j]

(* The documents of collection k among those that satisfy a find filter,   *)
(* as read.                                                                *)
Find(k, matching) ==
    [a \in {x \in matching : kind[x] = k} |-> docs[a]]

(***************************************************************************)
(* PUT /companies/{id} as a task: find_by_id of the company, update_one    *)
(* with $set, the read that returns the updated company, then the rename   *)
(* cascade (one find, one update_one per customer found) and the license   *)
(* cascade (its finds, one update_one of license_type per customer that    *)
(* holds the company as active reference).                                 *)
(***************************************************************************)
UpdateCompanyFind(t, c, company_update) ==
    /\ CanStart(t)
    /\ nUpdates < MaxCompanyUpdates
    /\ LET task == NewTask("update_company", "customer", NoSuchAffiliate,
                           company_update, c)
       IN Put(t, IF c \notin DOMAIN companies
                 THEN Ended(task, "CompanyNotFound")
                 ELSE [task EXCEPT !.pc = "update",
                                   !.current_company = companies[c]])
    /\ UNCHANGED <<companies, kind, docs, last, nUpdates>>

UpdateCompanyWrite(t) ==
    /\ At(t, "update_company", "update")
    /\ LET c == tasks[t].company IN
       companies' = IF c \in DOMAIN companies
                    THEN [companies EXCEPT ![c] = UpdatedCompany(companies[c], tasks[t].arg)]
                    ELSE companies
    /\ nUpdates' = nUpdates + 1
    /\ Put(t, [tasks[t] EXCEPT !.pc = "reload"])
    /\ UNCHANGED <<kind, docs, last>>

(* current_company.name != company.name, for a request that sets the name. *)
NameChanged(task) ==
    /\ "name" \in DOMAIN task.arg
    /\ task.current_company.name # task.updated_company.name

(* The license type changed to a non-empty one.                            *)
LicenseChanged(task) ==
    /\ "license_type" \in DOMAIN task.arg
    /\ task.current_company.license_type # task.updated_company.license_type
    /\ task.updated_company.license_type # None

UpdateCompanyReload(t) ==
    /\ At(t, "update_company", "reload")
    /\ LET c == tasks[t].company
           task == IF c \in DOMAIN companies
                   THEN [tasks[t] EXCEPT !.updated_company = companies[c]]
                   ELSE tasks[t]
       IN Put(t, IF c \notin DOMAIN companies
                 THEN Ended(task, "CompanyNotFound")
                 ELSE IF NameChanged(task)
                 THEN [task EXCEPT !.pc = "rename_find"]
                 ELSE IF LicenseChanged(task)
                 THEN [task EXCEPT !.pc = "license_find"]
                 ELSE Ended(task, "ok"))
    /\ UNCHANGED <<companies, kind, docs, last, nUpdates>>

(* The task after the last update_one of the rename cascade.               *)
AfterRename(task) ==
    IF LicenseChanged(task)
    THEN [task EXCEPT !.pc = "license_find", !.pending = <<>>]
    ELSE Ended([task EXCEPT !.pending = <<>>], "ok")

(* update_company_name: the find with $elemMatch.                          *)
RenameFind(t) ==
    /\ At(t, "update_company", "rename_find")
    /\ LET c == tasks[t].company
           matching == {x \in DOMAIN docs : ElemMatchCompany(docs[x], c)}
           found == Find("customer", matching)
           task == [tasks[t] EXCEPT !.found = found,
                                    !.pending = InFindOrder(DOMAIN found),
                                    !.readAt = Now]
       IN Put(t, IF found = <<>>
                 THEN AfterRename(task)
                 ELSE [task EXCEPT !.pc = "rename_write"])
    /\ UNCHANGED <<companies, kind, docs, last, nUpdates>>

(* update_company_name: update_one with the array of the next document     *)
(* found, renamed in memory.                                               *)
RenameWrite(t) ==
    /\ At(t, "update_company", "rename_write")
    /\ LET task == tasks[t]
           a == Head(task.pending)
           renamed == RenamedDoc(task.found[a], task.company,
                                 task.updated_company.name)
           written == [task EXCEPT !.pending = Tail(task.pending),
                                   !.wroteAt = Now]
       IN /\ docs' = [docs EXCEPT ![a] = SetCompany(docs[a], renamed)]
          /\ Put(t, IF Tail(task.pending) = <<>>
                    THEN AfterRename(written)
                    ELSE written)
    /\ UNCHANGED <<companies, kind, last, nUpdates>>

(* update_license_type_by_company: the two finds, the second of which      *)
(* replaces what the first returned for the same document.  Only           *)
(* documents with should_update get an update_one.                         *)
LicenseFind(t) ==
    /\ At(t, "update_company", "license_find")
    /\ LET c == tasks[t].company
           matching == {x \in DOMAIN docs : EmbedsCompany(docs[x], c)}
           found == Find("customer", matching)
           should_update == {a \in DOMAIN found : HoldsActive(found[a], c)}
           task == [tasks[t] EXCEPT !.pending = InFindOrder(should_update)]
       IN Put(t, IF should_update = {}
                 THEN Ended(task, "ok")
                 ELSE [task EXCEPT !.pc = "license_write"])
    /\ UNCHANGED <<companies, kind, docs, last, nUpdates>>

(* update_license_type_by_company: update_one with $set of license_type.   *)
LicenseWrite(t) ==
    /\ At(t, "update_company", "license_write")
    /\ LET task == tasks[t]
           a == Head(task.pending)
           written == [task EXCEPT !.pending = Tail(task.pending)]
       IN /\ docs' = [docs EXCEPT ![a].license_type =
                            task.updated_company.license_type]
          /\ Put(t, IF Tail(task.pending) = <<>>
                    THEN Ended(written, "ok")
                    ELSE written)
    /\ UNCHANGED <<companies, kind, last, nUpdates>>

(***************************************************************************)
(* update_company_active_status of a repository as a task: the finds, then  *)
(* one update_one per document in which a reference was set.               *)
(***************************************************************************)

(* updated: the loop set the flag of a reference of the document.          *)
ActiveStatusUpdated(doc, company_id) ==
    IF doc.shape = "object"
    THEN doc.company.id = company_id
    ELSE \E i \in 1..Len(doc.company) :
            /\ doc.company[i].id = company_id
            /\ (Len(doc.company) = 1 \/ IsActiveRef(doc.company[i]))

ActiveStatusFind(t, k, company_id, is_company_active) ==
    /\ CanStart(t)
    /\ LET matching == {x \in DOMAIN docs : EmbedsCompany(docs[x], company_id)}
           found == Find(k, matching)
           updated == {a \in DOMAIN found : ActiveStatusUpdated(found[a], company_id)}
           task == [NewTask("update_company_active_status", k, NoSuchAffiliate,
                            is_company_active, company_id)
                        EXCEPT !.found = found,
                               !.pending = InFindOrder(updated),
                               !.readAt = Now]
       IN Put(t, IF updated = {}
                 THEN Ended(task, "ok")
                 ELSE [task EXCEPT !.pc = "write"])
    /\ UNCHANGED <<companies, kind, docs, last, nUpdates>>

ActiveStatusWrite(t) ==
    /\ At(t, "update_company_active_status", "write")
    /\ LET task == tasks[t]
           a == Head(task.pending)
           cascaded == ActiveStatusCascadedDoc(task.found[a], task.company, task.arg)
           written == [task EXCEPT !.pending = Tail(task.pending),
                                   !.wroteAt = Now]
       IN /\ docs' = [docs EXCEPT ![a] = SetCompany(docs[a], cascaded)]
          /\ Put(t, IF Tail(task.pending) = <<>>
                    THEN Ended(written, "ok")
                    ELSE written)
    /\ UNCHANGED <<companies, kind, last, nUpdates>>

(***************************************************************************)
(* DELETE /companies/{id} as a task: find_by_id of the company, the        *)
(* update_many with $pull of clear_company_reference, then delete_one.     *)
(***************************************************************************)
DeleteCompanyFind(t, c) ==
    /\ CanStart(t)
    /\ LET task == NewTask("delete_company", "customer", NoSuchAffiliate, "", c)
       IN Put(t, IF c \notin DOMAIN companies
                 THEN Ended(task, "CompanyNotFound")
                 ELSE [task EXCEPT !.pc = "clear"])
    /\ UNCHANGED <<companies, kind, docs, last, nUpdates>>

DeleteCompanyClear(t) ==
    /\ At(t, "delete_company", "clear")
    /\ docs' = [a \in DOMAIN docs |->
                    IF kind[a] = "customer" /\ ElemMatchCompany(docs[a], tasks[t].company)
                    THEN ClearedDoc(docs[a], tasks[t].company)
                    ELSE docs[a]]
    /\ Put(t, [tasks[t] EXCEPT !.pc = "delete", !.readAt = Now, !.wroteAt = Now])
    /\ UNCHANGED <<companies, kind, last, nUpdates>>

DeleteCompanyRemove(t) ==
    /\ At(t, "delete_company", "delete")
    /\ LET c == tasks[t].company IN
       /\ companies' = [d \in DOMAIN companies \ {c} |-> companies[d]]
       /\ Put(t, Ended(tasks[t],
                       IF c \in DOMAIN companies THEN "ok" ELSE "CompanyNotFound"))
    /\ UNCHANGED <<kind, docs, last, nUpdates>>

(***************************************************************************)
(* Two requests at a time on one stored affiliate document.                *)
(***************************************************************************)
RaceInit ==
    /\ companies = [c \in Companies |->
            [name |-> InitialName(c), active |-> TRUE, status |-> "ativo",
             license_type |-> InitialLicense(c)]]
    /\ kind \in [Affiliates -> Kinds]
    /\ \E refs \in StoredArrays, lt \in LicenseTypes :
         docs = [a \in Affiliates |->
            [company |-> refs,
             license_type |-> IF kind[a] = "customer" THEN lt ELSE None,
             shape |-> "array"]]
    /\ last = Ran("init", NoSuchAffiliate, "", "ok", NoCompany, FALSE, EmptyDoc)
    /\ nUpdates = 0
    /\ tasks = <<>>

RaceNext ==
    \/ \E t \in Tasks, k \in Kinds, a \in Affiliates, n \in CompanyNames :
            LinkResolve(t, k, a, n)
    \/ \E t \in Tasks : LinkRead(t)
    \/ \E t \in Tasks : LinkWrite(t)
    \/ \E t \in Tasks, k \in Kinds, a \in Affiliates : UnlinkRead(t, k, a)
    \/ \E t \in Tasks : UnlinkWrite(t)
    \/ \E t \in Tasks, c \in Companies, u \in CascadeUpdates :
            UpdateCompanyFind(t, c, u)
    \/ \E t \in Tasks : UpdateCompanyWrite(t)
    \/ \E t \in Tasks : UpdateCompanyReload(t)
    \/ \E t \in Tasks : RenameFind(t)
    \/ \E t \in Tasks : RenameWrite(t)
    \/ \E t \in Tasks : LicenseFind(t)
    \/ \E t \in Tasks : LicenseWrite(t)
    \/ \E t \in Tasks, k \in Kinds, c \in Companies, v \in BOOLEAN :
            ActiveStatusFind(t, k, c, v)
    \/ \E t \in Tasks : ActiveStatusWrite(t)
    \/ \E t \in Tasks, c \in Companies : DeleteCompanyFind(t, c)
    \/ \E t \in Tasks : DeleteCompanyClear(t)
    \/ \E t \in Tasks : DeleteCompanyRemove(t)

RaceSpec == RaceInit /\ [][RaceNext]_vars

(***************************************************************************)
(* Properties of concurrent requests.                                      *)
(***************************************************************************)

(* Operations that read the reference array of a document and write it     *)
(* back whole.                                                             *)
ArrayWriters == {"link", "unlink", "update_company", "update_company_active_status"}

(* The company field task computed in memory for document a from what it   *)
(* read.                                                                   *)
ComputedBy(task, a) ==
    IF task.op = "link" THEN LinkComputed(task).company
    ELSE IF task.op = "unlink" THEN UnlinkComputed(task).company
    ELSE IF task.op = "update_company"
    THEN RenamedDoc(task.found[a], task.company, task.updated_company.name).company
    ELSE ActiveStatusCascadedDoc(task.found[a], task.company, task.arg).company

(* Tasks t and u both read the array of document a before either wrote it, *)
(* t wrote first and u last, and both have ended.                          *)
Raced(t, u, a) ==
    /\ t \in DOMAIN tasks /\ u \in DOMAIN tasks /\ t # u
    /\ tasks[t].op \in ArrayWriters /\ tasks[u].op \in ArrayWriters
    /\ tasks[t].pc = "done" /\ tasks[u].pc = "done"
    /\ a \in DOMAIN tasks[t].found /\ a \in DOMAIN tasks[u].found
    /\ tasks[t].wroteAt > 0 /\ tasks[u].wroteAt > tasks[t].wroteAt
    /\ tasks[t].readAt < tasks[t].wroteAt
    /\ tasks[u].readAt < tasks[t].wroteAt

HoldsId(refs, company_id) ==
    \E i \in 1..Len(refs) : refs[i].id = company_id

(* C21: when two operations among link, unlink, rename cascade and         *)
(* active-status cascade on the same document both read its array before   *)
(* either writes, the array stored after both writes is the one the later  *)
(* writer computed from its own read, which is the array as it was before  *)
(* the earlier write; a reference the earlier writer linked is absent.     *)
C21_LostUpdate ==
    \A t, u \in Tasks : \A a \in Affiliates :
        Raced(t, u, a) =>
            /\ tasks[u].found[a].company = tasks[t].found[a].company
            /\ docs[a].company = ComputedBy(tasks[u], a)
            /\ (/\ tasks[t].op = "link"
                /\ ~HoldsId(tasks[t].found[a].company, tasks[t].company)
                /\ ~(tasks[u].op = "link" /\ tasks[u].company = tasks[t].company))
               => ~HoldsId(docs[a].company, tasks[t].company)

(* Two links of different companies raced on an array that held neither;   *)
(* the company linked first is not in the stored array.                    *)
C21_Witness ==
    \E t, u \in Tasks : \E a \in Affiliates :
        /\ Raced(t, u, a)
        /\ tasks[t].op = "link" /\ tasks[u].op = "link"
        /\ tasks[t].company # tasks[u].company
        /\ ~HoldsId(tasks[t].found[a].company, tasks[t].company)
        /\ ~HoldsId(tasks[t].found[a].company, tasks[u].company)
        /\ HoldsId(docs[a].company, tasks[u].company)
        /\ ~HoldsId(docs[a].company, tasks[t].company)

(* Two link operations on document a, both reads before both writes.       *)
RacedLinks(t, u, a) ==
    /\ Raced(t, u, a)
    /\ tasks[t].op = "link"
    /\ tasks[u].op = "link"

(* C22, as claimed: two link operations that race on the same affiliate,   *)
(* both reads taking place before both writes, leave the stored array with *)
(* more than one reference flagged active.                                 *)
C22_RaceBreaksSingleActive ==
    \A t, u \in Tasks : \A a \in Affiliates :
        (RacedLinks(t, u, a) /\ tasks[t].company # tasks[u].company)
            => ActiveCount(docs[a].company) > 1

(* C22, amended: two link operations that race on the same affiliate, both *)
(* reads before both writes, leave the array the later writer computed; it *)
(* has exactly one reference flagged active, the later writer's company,   *)
(* and no state reached by racing requests holds an array with more than   *)
(* one active reference.                                                   *)
C22_RaceKeepsSingleActive ==
    /\ \A a \in Affiliates : ActiveCount(docs[a].company) <= 1
    /\ \A t, u \in Tasks : \A a \in Affiliates :
          RacedLinks(t, u, a) =>
             /\ ActiveCount(docs[a].company) = 1
             /\ \A i \in 1..Len(docs[a].company) :
                   docs[a].company[i].isCompanyActive
                      <=> docs[a].company[i].id = tasks[u].company

(* Two links of different companies raced on an array whose active         *)
(* reference was a third entry or none: one reference is active after both. *)
C22_Witness ==
    \E t, u \in Tasks : \E a \in Affiliates :
        /\ RacedLinks(t, u, a)
        /\ tasks[t].company # tasks[u].company
        /\ ~HoldsId(tasks[u].found[a].company, tasks[u].company)
        /\ ActiveCount(docs[a].company) = 1
        /\ docs[a].company[Len(docs[a].company)].id = tasks[u].company
        /\ docs[a].company[Len(docs[a].company)].isCompanyActive

(***************************************************************************)
(* One company update on stored documents, in a process that may stop at   *)
(* any await.  A task of a stopped process keeps its position and takes no *)
(* further step; no code of the application reads what a stopped request   *)
(* left undone.                                                            *)
(***************************************************************************)
Stopped == "stopped"

ProcessStops ==
    /\ \E t \in DOMAIN tasks : tasks[t].outcome = Running
    /\ tasks' = [t \in DOMAIN tasks |->
                    IF tasks[t].outcome = Running
                    THEN [tasks[t] EXCEPT !.outcome = Stopped]
                    ELSE tasks[t]]
    /\ UNCHANGED <<companies, kind, docs, last, nUpdates>>

CrashNext ==
    \/ \E t \in Tasks, c \in Companies, u \in CascadeUpdates :
            tasks = <<>> /\ UpdateCompanyFind(t, c, u)
    \/ \E t \in Tasks : UpdateCompanyWrite(t)
    \/ \E t \in Tasks : UpdateCompanyReload(t)
    \/ \E t \in Tasks : RenameFind(t)
    \/ \E t \in Tasks : RenameWrite(t)
    \/ \E t \in Tasks : LicenseFind(t)
    \/ \E t \in Tasks : LicenseWrite(t)
    \/ ProcessStops

CrashSpec == CascadeInit /\ [][CrashNext]_vars

(* Every reference to the company in the document carries the name.        *)
CarriesName(doc, company_id, name) ==
    \A i \in 1..Len(doc.company) :
        doc.company[i].id = company_id => doc.company[i].name = name

(* C23: the company update writes the Company document first and then the  *)
(* customers it found one at a time.  A process that stopped inside the    *)
(* rename cascade has left the Company and the customers already written   *)
(* under the new name, and the customers still to be written under the old *)
(* one; the state stays as it is, nothing rolls back or resumes.           *)
C23_CascadeNotAtomic ==
    \A t \in DOMAIN tasks :
        LET task == tasks[t] IN
        /\ (task.op = "update_company" /\ task.pc \notin {"update", "done"}) =>
              \A f \in DOMAIN task.arg : companies[task.company][f] = task.arg[f]
        /\ (task.op = "update_company" /\ task.pc = "rename_write") =>
              \A a \in DOMAIN task.found :
                 IF \E i \in 1..Len(task.pending) : task.pending[i] = a
                 THEN /\ docs[a] = task.found[a]
                      /\ CarriesName(docs[a], task.company, task.current_company.name)
                 ELSE CarriesName(docs[a], task.company, task.arg.name)

(* The process stopped after the first of two customers was renamed.       *)
C23_Witness ==
    \E t \in DOMAIN tasks :
        /\ tasks[t].outcome = Stopped
        /\ tasks[t].pc = "rename_write"
        /\ DOMAIN tasks[t].found = {1, 2}
        /\ tasks[t].pending = <<2>>
        /\ companies[tasks[t].company].name = tasks[t].arg.name
        /\ CarriesName(docs[1], tasks[t].company, tasks[t].arg.name)
        /\ ~CarriesName(docs[2], tasks[t].company, tasks[t].arg.name)
        /\ ~(ENABLED CrashNext)

(***************************************************************************)
(* CustomerRepository.create and create_many for customers whose company   *)
(* field holds a company name (a str, the branch the CSV import was        *)
(* written for), None or the empty string.                                 *)
(***************************************************************************)
MaxBatch == 2

(* The company names a customer to create may carry; None: no company.     *)
CompanyValues == LinkNames \cup {None}

NewCustomers ==
    [license_type : LicenseTypes, company : CompanyValues]

Batches == UNION {[1..n -> NewCustomers] : n \in 0..MaxBatch}

(* "if customer.company": None and the empty string are falsy.             *)
HasCompanyName(company_value) ==
    company_value # None /\ company_value # ""

(* create raises ValueError: the name does not resolve.                    *)
CreateRaises(company_value) ==
    /\ HasCompanyName(company_value)
    /\ ResolveCompanyReference(company_value, TRUE) = NoRef

(* companies_list of create for a str company: the resolved reference,     *)
(* flagged active.                                                         *)
CreatedCompanies(company_value) ==
    IF HasCompanyName(company_value)
    THEN <<WithActiveFlag(ResolveCompanyReference(company_value, TRUE), TRUE)>>
    ELSE <<>>

(* The id insert_one / insert_many gives the next document.                *)
NextId(ids) == Cardinality(ids) + 1

Inserted(stored, new_docs) ==
    LET n == Cardinality(DOMAIN stored) IN
    [a \in DOMAIN stored \cup ((n + 1)..(n + Len(new_docs))) |->
        IF a \in DOMAIN stored THEN stored[a] ELSE new_docs[a - n]]

CustomerCreateNamed(customer) ==
    /\ Cardinality(DOMAIN docs) < MaxBatch
    /\ IF CreateRaises(customer.company)
       THEN /\ last' = Ran("create", NoSuchAffiliate, customer, "CompanyNotEligible",
                           NoCompany, FALSE, Collections)
            /\ UNCHANGED <<docs, kind>>
       ELSE LET doc == [company |-> CreatedCompanies(customer.company),
                        license_type |-> customer.license_type,
                        shape |-> "array"]
            IN /\ docs' = Inserted(docs, <<doc>>)
               /\ kind' = Inserted(kind, <<"customer">>)
               /\ last' = Ran("create", NextId(DOMAIN docs), customer, "ok",
                              NoCompany, TRUE, Collections)
    /\ UNCHANGED <<companies, nUpdates, tasks>>

(* company_names of create_many: the distinct trimmed names.               *)
BatchCompanyNames(customers) ==
    {Strip(customers[i].company) : i \in
        {j \in 1..Len(customers) :
            /\ HasCompanyName(customers[j].company)
            /\ Strip(customers[j].company) # ""}}

(* company_cache of create_many: each name that resolves, resolved once.   *)
CompanyCache(customers) ==
    [company_name \in {n \in BatchCompanyNames(customers) :
                            ResolveCompanyReference(n, TRUE) # NoRef}
        |-> ResolveCompanyReference(company_name, TRUE)]

(* create_many that stores the cached reference with the flag the resolver *)
(* gave it.                                                                *)
FannedOut_KeepsResolvedFlag(company_ref) == <<company_ref>>

(* A copy of the cached reference, flagged active, as the array of one     *)
(* customer.                                                               *)
FannedOut(company_ref) == <<WithActiveFlag(company_ref, TRUE)>>

(* customers_dict of create_many: a customer whose name is not in the      *)
(* cache is skipped.                                                       *)
RECURSIVE CustomersDict(_, _)
CustomersDict(customers, company_cache) ==
    IF customers = <<>> THEN <<>>
    ELSE LET customer == Head(customers)
             rest == CustomersDict(Tail(customers), company_cache)
         IN IF HasCompanyName(customer.company)
            THEN IF Strip(customer.company) \in DOMAIN company_cache
                 THEN <<[company |-> FannedOut(company_cache[Strip(customer.company)]),
                         license_type |-> customer.license_type,
                         shape |-> "array"]>> \o rest
                 ELSE rest
            ELSE <<[company |-> <<>>,
                    license_type |-> customer.license_type,
                    shape |-> "array"]>> \o rest

CustomerCreateMany(customers) ==
    /\ Cardinality(DOMAIN docs) + Len(customers) <= MaxBatch
    /\ LET customers_dict == CustomersDict(customers, CompanyCache(customers))
       IN /\ docs' = Inserted(docs, customers_dict)
          /\ kind' = Inserted(kind, [i \in 1..Len(customers_dict) |-> "customer"])
          /\ last' = Ran("create_many", NoSuchAffiliate, customers, "ok", NoCompany,
                         customers_dict # <<>>, Collections)
    /\ UNCHANGED <<companies, nUpdates, tasks>>

(* Empty customers collection; companies of any active flag and status.    *)
BatchInit ==
    /\ companies \in [Companies -> [name : CompanyNames, active : BOOLEAN,
                                    status : Statuses,
                                    license_type : LicenseTypes \cup {None}]]
    /\ \A c \in Companies :
          /\ companies[c].name = InitialName(c)
          /\ companies[c].license_type = InitialLicense(c)
    /\ kind = <<>>
    /\ docs = <<>>
    /\ last = Ran("init", NoSuchAffiliate, "", "ok", NoCompany, FALSE, EmptyDoc)
    /\ nUpdates = 0
    /\ tasks = <<>>

BatchNext ==
    \/ \E customer \in NewCustomers : CustomerCreateNamed(customer)
    \/ \E customers \in Batches : CustomerCreateMany(customers)

BatchSpec == BatchInit /\ [][BatchNext]_vars

(* create stores a document for the customer: it does not raise.           *)
CreateStores(customer) == ~CreateRaises(customer.company)

RawItems ==
    StoredReferences \cup StoredObjects
    \cup {[str |-> n] : n \in CompanyNames}
    \cup {[other |-> 0]}

RawLists == UNION {[1..n -> RawItems] : n \in 0..MaxSupplied}

RawDocs ==
    {[company |-> None, license_type |-> None, shape |-> "null"]}
    \cup {[company |-> n, license_type |-> None, shape |-> "string"] :
            n \in LinkNames}
    \cup {[company |-> m, license_type |-> None, shape |-> "object"] :
            m \in StoredReferences \cup StoredObjects}
    \cup {[company |-> l, license_type |-> None, shape |-> "array"] :
            l \in RawLists}

NormalizeInit ==
    /\ companies = [c \in Companies |->
            [name |-> InitialName(c), active |-> TRUE, status |-> "ativo",
             license_type |-> InitialLicense(c)]]
    /\ kind \in [Affiliates -> Kinds]
    /\ docs \in [Affiliates -> RawDocs]
    /\ last = Ran("init", NoSuchAffiliate, "", "ok", NoCompany, FALSE, EmptyDoc)
    /\ nUpdates = 0
    /\ tasks = <<>>

(* The normalizer is called with the company field of document a; outcome  *)
(* is the list it returns.                                                 *)
Normalize(a) ==
    /\ a \in DOMAIN docs
    /\ last' = Ran("normalize", a, "", NormalizeCompanyArrayField(docs[a]),
                   NoCompany, FALSE, docs[a])
    /\ UNCHANGED <<companies, kind, docs, nUpdates, tasks>>

NormalizeNext == \E a \in Affiliates : Normalize(a)

NormalizeSpec == NormalizeInit /\ [][NormalizeNext]_vars

(* C25: normalization maps null to the empty list, a bare string s to      *)
(* [{name: s}], a single mapping m to the one-element list holding m, and  *)
(* a list to the list of its elements normalized one by one; for a list of *)
(* mappings and strings the output has the length of the input and element *)
(* i of the output comes from element i of the input.                      *)
C25_NormalizerRules ==
    last.op = "normalize" =>
        LET input == last.before.company
            shape == last.before.shape
            output == last.outcome
        IN /\ shape = "null" => output = <<>>
           /\ shape = "string" =>
                 /\ Len(output) = 1
                 /\ DOMAIN output[1] = {"name"}
                 /\ output[1].name = input
           /\ shape = "object" => Len(output) = 1 /\ output[1] = input
           /\ (/\ shape = "array"
               /\ \A i \in 1..Len(input) : "other" \notin DOMAIN input[i])
              => /\ Len(output) = Len(input)
                 /\ \A i \in 1..Len(input) :
                       IF "str" \in DOMAIN input[i]
                       THEN /\ DOMAIN output[i] = {"name"}
                            /\ output[i].name = input[i].str
                       ELSE output[i] = input[i]

(* A list of a mapping followed by a string was normalized.                *)
C25_Witness ==
    /\ last.op = "normalize"
    /\ last.before.shape = "array"
    /\ Len(last.before.company) = 2
    /\ "id" \in DOMAIN last.before.company[1]
    /\ "str" \in DOMAIN last.before.company[2]
    /\ Len(last.outcome) = 2
    /\ last.outcome[1] = last.before.company[1]
    /\ last.outcome[2] = [name |-> last.before.company[2].str]

(* C26: starting from an empty array, after any sequence of sequential     *)
(* link and unlink operations on one affiliate, no two references of its   *)
(* stored array carry the same company id.                                 *)
C26_NoDuplicateIds ==
    \A a \in Affiliates :
        \A i, j \in 1..Len(docs[a].company) :
            i # j => docs[a].company[i].id # docs[a].company[j].id

(* A company that the array held as history was linked again, and the      *)
(* array still has one reference per company.                              *)
C26_Witness ==
    /\ LinkSucceeded
    /\ Len(last.before.company) = 2
    /\ FirstIndexOfId(last.before.company, last.company) # 0
    /\ Len(docs[last.aff].company) = 2
    /\ docs[last.aff].company[1].id # docs[last.aff].company[2].id

(***************************************************************************)
(* Every sequential operation on the arrays: link, unlink, the update of a *)
(* company with its cascades, the cascades called on their own, and the    *)
(* deletion of a company.  The arrays start empty, as in Spec.             *)
(***************************************************************************)
SequentialNext ==
    \/ \E a \in AffiliateIds, n \in LinkNames : CustomerLinkCompany(a, n)
    \/ \E a \in AffiliateIds, n \in LinkNames : IndicadorLinkCompany(a, n)
    \/ \E a \in AffiliateIds, n \in LinkNames : ParceiroLinkCompany(a, n)
    \/ \E a \in AffiliateIds : CustomerUnlinkCompany(a)
    \/ \E a \in AffiliateIds : IndicadorUnlinkCompany(a)
    \/ \E a \in AffiliateIds : ParceiroUnlinkCompany(a)
    \/ \E c \in Companies, u \in CascadeUpdates : UpdateCompany(c, u)
    \/ \E c \in Companies : DeleteCompany(c)
    \/ \E c \in Companies, v \in BOOLEAN : CustomerUpdateCompanyActiveStatus(c, v)
    \/ \E c \in Companies, v \in BOOLEAN : IndicadorUpdateCompanyActiveStatus(c, v)
    \/ \E c \in Companies, v \in BOOLEAN : ParceiroUpdateCompanyActiveStatus(c, v)
    \/ \E c \in Companies, l \in LicenseTypes :
            CustomerUpdateLicenseTypeByCompany(c, l)
    \/ \E c \in Companies, l \in LicenseTypes :
            IndicadorUpdateLicenseTypeByCompany(c, l)
    \/ \E c \in Companies, l \in LicenseTypes :
            ParceiroUpdateLicenseTypeByCompany(c, l)

SequentialSpec == Init /\ [][SequentialNext]_vars

(* The operations on a company that rewrite the affiliates' documents.     *)
CascadeOperations ==
    {"update_company", "update_company_active_status",
     "update_license_type_by_company", "delete_company"}

(* C27: a cascade operation (rename, license-type propagation,             *)
(* active-status update with either value, reference clearing on deletion) *)
(* applied to an affiliate whose array has at most one active reference    *)
(* leaves it with at most one; and after any sequential mix of link,       *)
(* unlink and cascade operations from empty arrays every array has at most *)
(* one active reference.                                                   *)
C27_CascadesKeepSingleActive ==
    /\ last.op \in CascadeOperations =>
          \A a \in Affiliates :
              ActiveCount(last.before.docs[a].company) <= 1
                  => ActiveCount(docs[a].company) <= 1
    /\ \A a \in Affiliates : ActiveCount(docs[a].company) <= 1

(* The active-status cascade ran with the value true for a company that an *)
(* array holds as history next to an active reference of another company,  *)
(* and the array still has one active reference.                           *)
C27_Witness ==
    /\ last.op = "update_company_active_status"
    /\ last.arg.is_company_active
    /\ \E a \in Affiliates :
          LET before == last.before.docs[a].company IN
          /\ kind[a] = last.arg.collection
          /\ Len(before) = 2
          /\ ActiveCount(before) = 1
          /\ \E i \in 1..2 : before[i].id = last.company /\ ~before[i].isCompanyActive
          /\ ActiveCount(docs[a].company) = 1

(* update_company_active_status(X, false) has just run on a collection and *)
(* update_company_active_status(X, true) runs next on the same collection, *)
(* with no operation in between.                                           *)
ActiveStatusRoundTrip ==
    /\ last.op = "update_company_active_status"
    /\ ~last.arg.is_company_active
    /\ last'.op = "update_company_active_status"
    /\ last'.arg.is_company_active
    /\ last'.arg.collection = last.arg.collection
    /\ last'.company = last.company

(* The affiliates of the round trip: those of the collection whose active  *)
(* reference was the company before the first call.                        *)
RoundTripAffiliates ==
    {a \in Affiliates :
        /\ kind[a] = last.arg.collection
        /\ HoldsId(SelectSeq(last.before.docs[a].company, IsActiveRef),
                   last.company)}

(* C28 as claimed: update_company_active_status(X, false) followed by      *)
(* update_company_active_status(X, true) restores the array of every       *)
(* affiliate whose active reference was X, with or without history.        *)
C28_RoundTripRestores ==
    [][ActiveStatusRoundTrip =>
          \A a \in RoundTripAffiliates :
              docs'[a].company = last.before.docs[a].company]_vars

(* C28: update_company_active_status(X, false) followed by                 *)
(* update_company_active_status(X, true) restores the array of an          *)
(* affiliate whose only reference is X; in an array that also holds        *)
(* historical references the reference to X stays inactive after the two   *)
(* calls and the other references are as they were.                        *)
C28_RoundTripRestoresSoleReference ==
    [][ActiveStatusRoundTrip =>
          \A a \in RoundTripAffiliates :
              LET original == last.before.docs[a].company IN
              IF Len(original) = 1
              THEN docs'[a].company = original
              ELSE docs'[a].company =
                      [i \in 1..Len(original) |->
                          IF original[i].id = last.company
                          THEN [original[i] EXCEPT !.isCompanyActive = FALSE]
                          ELSE original[i]]]_vars

(* The second call of a round trip ran on an array of two references that  *)
(* the first call had left with no active one, and left the reference to   *)
(* the company inactive.                                                   *)
C28_Witness ==
    /\ last.op = "update_company_active_status"
    /\ last.arg.is_company_active
    /\ \E a \in Affiliates :
          /\ kind[a] = last.arg.collection
          /\ Len(last.before.docs[a].company) = 2
          /\ ActiveCount(last.before.docs[a].company) = 0
          /\ HoldsId(last.before.docs[a].company, last.company)
          /\ docs[a].company = last.before.docs[a].company

(* Task t is a request that has ended with success.                        *)
Completed(t, op) ==
    /\ t \in DOMAIN tasks
    /\ tasks[t].op = op
    /\ tasks[t].outcome = "ok"

(* C29: when a link of company X to a customer and a rename of X with its  *)
(* cascade have both completed, however their steps interleaved, every     *)
(* reference to X embedded in a Customer document carries the name the     *)
(* Company document has.                                                   *)
C29_RenameVersusLink ==
    \A t, u \in DOMAIN tasks :
        (/\ Completed(t, "link")
         /\ tasks[t].collection = "customer"
         /\ Completed(u, "update_company")
         /\ NameChanged(tasks[u])
         /\ tasks[u].company = tasks[t].company
         /\ tasks[u].company \in DOMAIN companies)
        => \A a \in DOMAIN docs :
              kind[a] = "customer" =>
                  \A i \in 1..Len(docs[a].company) :
                      docs[a].company[i].id = tasks[u].company
                          => docs[a].company[i].name
                                = companies[tasks[u].company].name

(* C30: when a link of company X to a customer and the deletion of X have  *)
(* both completed, however their steps interleaved, no Customer document   *)
(* embeds a reference with the id of X.                                    *)
C30_DeletionVersusLink ==
    \A t, u \in DOMAIN tasks :
        (/\ Completed(t, "link")
         /\ tasks[t].collection = "customer"
         /\ Completed(u, "delete_company")
         /\ tasks[u].company = tasks[t].company)
        => \A a \in DOMAIN docs :
              kind[a] = "customer" => ~HoldsId(docs[a].company, tasks[u].company)

====
